---- MODULE Spec2Model ----
(***************************************************************************)
(* A model of github.com/pellared/olog (logger.go): the Logger value, its  *)
(* attribute composition (With / WithAttr), the argument encoder           *)
(* (convertArgsToKeyValues) and the record assembly of the 24 logging      *)
(* methods.  The OpenTelemetry backend (log.Logger, log.Record) is the     *)
(* external collaborator: a record handed to Emit is appended to           *)
(* `emitted`, a query handed to Enabled is appended to `queried`, and      *)
(* Record's setters are modelled by what they store.                       *)
(***************************************************************************)
EXTENDS Integers, Sequences, FiniteSets, TLC

VARIABLES
    loggers,   \* the Logger values built so far: [Logger |-> handle, attrs |-> slice]
    arrays,    \* the heap of backing arrays of the []log.KeyValue slices
    derived,   \* history: how each Logger value was obtained (New / With / WithAttr)
    pc,        \* "idle", or "returned" right after a logging call has run
    call,      \* the logging call that has just run (its method and arguments)
    emitted,   \* the records the call handed to the backend's Emit
    queried,   \* the queries the call handed to the backend's Enabled
    newCalls,  \* the latest New: its options and stack, and the calls it made
    threads,   \* the calls in progress of the concurrent callers, step by step
    enc,       \* the argument encoder applied on its own: [args, out, done]
    walk       \* the caller resolver applied on its own: [stack, i, at, result]

vars ==
    <<loggers, arrays, derived, pc, call, emitted, queried, newCalls, threads, enc,
      walk>>

(***************************************************************************)
(* Bounds of the model.                                                    *)
(***************************************************************************)
MaxLoggers == 3
MaxArgLen == 5

(***************************************************************************)
(* log.Severity values used by logger.go and its tests.                    *)
(***************************************************************************)
SeverityUndefined == 0
SeverityTrace == 1
SeverityTrace2 == 2
SeverityDebug == 5
SeverityInfo == 9
SeverityWarn == 13
SeverityWarn3 == 15
SeverityError == 17

\* no call stack is being walked
NoWalk == [stack |-> <<>>, i |-> 0, at |-> "none", result |-> <<>>]

(***************************************************************************)
(* Dynamically typed arguments (Go's `any`): a type tag, a string payload  *)
(* and a numeric payload.                                                  *)
(***************************************************************************)
AnyString(s) == [t |-> "string", s |-> s, n |-> 0]
AnyInt(n) == [t |-> "int", s |-> "", n |-> n]
AnyBool(b) == [t |-> "bool", s |-> "", n |-> IF b THEN 1 ELSE 0]
AnyError(msg) == [t |-> "error", s |-> msg, n |-> 0]
AnyStruct(rendering) == [t |-> "struct", s |-> rendering, n |-> 0]
\* a value of the numeric type t (int8 .. uint64, float32, float64)
AnyNum(t, n) == [t |-> t, s |-> "", n |-> n]
\* the nil interface value
AnyNil == [t |-> "nil", s |-> "<nil>", n |-> 0]

SignedTypes == {"int", "int8", "int16", "int32", "int64"}
UnsignedTypes == {"uint", "uint8", "uint16", "uint32", "uint64"}
FloatTypes == {"float32", "float64"}

(***************************************************************************)
(* The width of int64 and uint64. The model checker's own integers have 32 *)
(* bits, so the 64 bits are scaled down; every number the model uses for a *)
(* narrower type fits in that type.                                        *)
(***************************************************************************)
Int64Bits == 16
MaxInt64 == 2^(Int64Bits - 1) - 1
MinInt64 == 0 - 2^(Int64Bits - 1)
MaxUint64 == 2^Int64Bits - 1

\* Go's conversion int64(x) of an integer x of a fixed-width type
int64(n) == IF n > MaxInt64 THEN n - 2^Int64Bits ELSE n

\* args[i].(string) succeeds
IsString(v) == v.t = "string"

(***************************************************************************)
(* log.Value and log.KeyValue.                                             *)
(***************************************************************************)
EmptyValue == [Kind |-> "Empty", s |-> "", n |-> 0]
StringValue(s) == [Kind |-> "String", s |-> s, n |-> 0]
Int64Value(n) == [Kind |-> "Int64", s |-> "", n |-> n]
Float64Value(n) == [Kind |-> "Float64", s |-> "", n |-> n]
BoolValue(n) == [Kind |-> "Bool", s |-> "", n |-> n]

KeyValue(k, v) == [Key |-> k, Value |-> v]
String(k, s) == KeyValue(k, StringValue(s))

\* Faulty variant of the Value Normalizer: no arm for the unsigned types
convertValueSignedOnly(v) ==
    CASE v.t = "string" -> StringValue(v.s)
      [] v.t \in SignedTypes -> Int64Value(int64(v.n))
      [] v.t \in FloatTypes -> Float64Value(v.n)
      [] v.t = "bool" -> BoolValue(v.n)
      [] v.t = "error" -> StringValue(v.s)
      [] OTHER -> StringValue(v.s)

\* The Value Normalizer (spec section 4.1); its Go source is not in src/.
convertValue(v) ==
    CASE v.t = "string" -> StringValue(v.s)
      [] v.t \in SignedTypes \cup UnsignedTypes -> Int64Value(int64(v.n))
      [] v.t \in FloatTypes -> Float64Value(v.n)
      [] v.t = "bool" -> BoolValue(v.n)
      [] v.t = "error" -> StringValue(v.s)
      [] OTHER -> StringValue(v.s)

(***************************************************************************)
(* convertArgsToKeyValues: the loop `for i := 0; i < len(args); i += 2`.   *)
(* i is the Go (0-based) index; args[i] in Go is args[i + 1] here.         *)
(***************************************************************************)
RECURSIVE convertLoop(_, _, _)
convertLoop(args, i, keyValues) ==
    IF ~(i < Len(args)) THEN keyValues
    ELSE IF i + 1 >= Len(args)
         THEN \* odd number of arguments: the key with an empty value, then break
              IF IsString(args[i + 1])
              THEN Append(keyValues, String(args[i + 1].s, ""))
              ELSE keyValues
    ELSE IF ~IsString(args[i + 1])
         THEN convertLoop(args, i + 2, keyValues)      \* continue
    ELSE convertLoop(args, i + 2,
             Append(keyValues, KeyValue(args[i + 1].s, convertValue(args[i + 2]))))

\* Faulty variants of the encoder.
\* (a) the dangling key of an odd-length list is dropped
RECURSIVE convertLoopDropDangling(_, _, _)
convertLoopDropDangling(args, i, keyValues) ==
    IF ~(i < Len(args)) THEN keyValues
    ELSE IF i + 1 >= Len(args) THEN keyValues
    ELSE IF ~IsString(args[i + 1])
         THEN convertLoopDropDangling(args, i + 2, keyValues)
    ELSE convertLoopDropDangling(args, i + 2,
             Append(keyValues, KeyValue(args[i + 1].s, convertValue(args[i + 2]))))

convertArgsDropDangling(args) == convertLoopDropDangling(args, 0, <<>>)

\* (b) a non-string key ends the loop (break) instead of skipping the pair
RECURSIVE convertLoopStopAtBadKey(_, _, _)
convertLoopStopAtBadKey(args, i, keyValues) ==
    IF ~(i < Len(args)) THEN keyValues
    ELSE IF i + 1 >= Len(args)
         THEN IF IsString(args[i + 1])
              THEN Append(keyValues, String(args[i + 1].s, ""))
              ELSE keyValues
    ELSE IF ~IsString(args[i + 1]) THEN keyValues
    ELSE convertLoopStopAtBadKey(args, i + 2,
             Append(keyValues, KeyValue(args[i + 1].s, convertValue(args[i + 2]))))

convertArgsStopAtBadKey(args) == convertLoopStopAtBadKey(args, 0, <<>>)

\* (c) the value is read at index i instead of i+1
RECURSIVE convertLoopValueAtKey(_, _, _)
convertLoopValueAtKey(args, i, keyValues) ==
    IF ~(i < Len(args)) THEN keyValues
    ELSE IF i + 1 >= Len(args)
         THEN IF IsString(args[i + 1])
              THEN Append(keyValues, String(args[i + 1].s, ""))
              ELSE keyValues
    ELSE IF ~IsString(args[i + 1])
         THEN convertLoopValueAtKey(args, i + 2, keyValues)
    ELSE convertLoopValueAtKey(args, i + 2,
             Append(keyValues, KeyValue(args[i + 1].s, convertValue(args[i + 1]))))

convertArgsValueAtKey(args) == convertLoopValueAtKey(args, 0, <<>>)

\* (d) after a non-string key the loop goes on at the next element (i + 1)
RECURSIVE convertLoopResync(_, _, _)
convertLoopResync(args, i, keyValues) ==
    IF ~(i < Len(args)) THEN keyValues
    ELSE IF i + 1 >= Len(args)
         THEN IF IsString(args[i + 1])
              THEN Append(keyValues, String(args[i + 1].s, ""))
              ELSE keyValues
    ELSE IF ~IsString(args[i + 1])
         THEN convertLoopResync(args, i + 1, keyValues)
    ELSE convertLoopResync(args, i + 2,
             Append(keyValues, KeyValue(args[i + 1].s, convertValue(args[i + 2]))))

convertArgsResync(args) == convertLoopResync(args, 0, <<>>)

convertArgsToKeyValues(args) == convertLoop(args, 0, <<>>)

(***************************************************************************)
(* The encoder on its own, over every argument list up to MaxArgLen.       *)
(***************************************************************************)
EncVals == {AnyString("a"), AnyString("b"), AnyInt(42), AnyError("boom")}

SeqsUpTo(S, n) == UNION {[1..k -> S] : k \in 0..n}

EncArgLists == SeqsUpTo(EncVals, MaxArgLen)

Convert ==
    /\ ~enc.done
    /\ enc' = [enc EXCEPT !.out = convertArgsToKeyValues(enc.args), !.done = TRUE]
    /\ UNCHANGED <<loggers, arrays, derived, pc, call, emitted, queried, newCalls,
                 threads, walk>>


(***************************************************************************)
(* Go slices: a slice is a window [arr, len, cap] on a backing array of    *)
(* the heap `arrays`; the nil slice has no array.                          *)
(***************************************************************************)
ZeroKeyValue == KeyValue("", EmptyValue)
nil == [arr |-> 0, len |-> 0, cap |-> 0]

\* s[0:len(s)] read out of the heap
Elems(arrs, s) == IF s.len = 0 THEN <<>> ELSE SubSeq(arrs[s.arr], 1, s.len)

\* make([]log.KeyValue, 0, n): a fresh backing array of capacity n
make(arrs, n) ==
    [arrays |-> Append(arrs, [j \in 1..n |-> ZeroKeyValue]),
     slice |-> [arr |-> Len(arrs) + 1, len |-> 0, cap |-> n]]

\* append(s, xs...): in place when the capacity allows, else into a fresh array
append(arrs, s, xs) ==
    IF Len(xs) = 0 THEN [arrays |-> arrs, slice |-> s]
    ELSE IF s.len + Len(xs) <= s.cap
    THEN [arrays |-> [arrs EXCEPT ![s.arr] =
                         [j \in 1..s.cap |->
                             IF j > s.len /\ j <= s.len + Len(xs)
                             THEN xs[j - s.len] ELSE arrs[s.arr][j]]],
          slice |-> [s EXCEPT !.len = s.len + Len(xs)]]
    ELSE [arrays |-> Append(arrs, Elems(arrs, s) \o xs),
          slice |-> [arr |-> Len(arrs) + 1, len |-> s.len + Len(xs),
                     cap |-> s.len + Len(xs)]]

(***************************************************************************)
(* Inputs of the calls.                                                    *)
(***************************************************************************)
Contexts == {"background"}
Msgs == {"", "started"}
Names == {"user.login"}
Levels == {SeverityUndefined, SeverityTrace2, SeverityWarn3}

\* argument lists of the logging calls: none, a well-formed pair, and a list
\* with a non-string key, a value of an unrecognised type and a dangling key
ArgLists ==
    { <<>>,
      <<AnyString("port"), AnyInt(8080)>>,
      <<AnyInt(42), AnyString("x"), AnyString("k"), AnyStruct("{}"), AnyString("port")>> }

AttrLists ==
    { <<>>,
      <<String("k", "v"), KeyValue("k", Int64Value(1))>> }

\* argument lists of With and attribute lists of WithAttr
BindArgLists ==
    { <<>>,
      <<AnyString("port"), AnyInt(8080)>>,
      <<AnyInt(42), AnyString("x"), AnyString("k"), AnyString("v"), AnyString("port")>> }

BindAttrLists == { <<>>, <<String("k", "v"), KeyValue("k", Int64Value(1))>> }

(***************************************************************************)
(* type Logger struct { log.Logger; attrs []log.KeyValue }                 *)
(* The embedded log.Logger is the backend handle New obtained.             *)
(***************************************************************************)
NewLogger(otelLogger) == [Logger |-> otelLogger, attrs |-> nil]

\* Faulty variant: combinedAttrs := append(l.attrs, attrs...), which writes into
\* the receiver's backing array whenever it has spare capacity (a grown array
\* is allocated with twice the capacity needed).
WithAttrShared(i, attrs) ==
    /\ pc = "idle"
    /\ Len(loggers) < MaxLoggers
    /\ LET l == loggers[i]
           need == l.attrs.len + Len(attrs)
           m == make(arrays, 2 * need)
           a1 == append(m.arrays, m.slice, Elems(m.arrays, l.attrs))
           a2 == IF need <= l.attrs.cap
                 THEN append(arrays, l.attrs, attrs)
                 ELSE append(a1.arrays, a1.slice, attrs)
       IN /\ arrays' = a2.arrays
          /\ loggers' = Append(loggers, [Logger |-> l.Logger, attrs |-> a2.slice])
    /\ derived' = Append(derived,
                     [op |-> "WithAttr", recv |-> i, args |-> <<>>, attrs |-> attrs])
    /\ UNCHANGED <<pc, call, emitted, queried, newCalls, threads, enc, walk>>

\* Faulty variant: the new Logger gets a handle of the receiver's name, without
\* the receiver's version and instrumentation attributes
WithAttrNoHandle(i, attrs) ==
    /\ pc = "idle"
    /\ Len(loggers) < MaxLoggers
    /\ LET l == loggers[i]
           m == make(arrays, l.attrs.len + Len(attrs))
           a1 == append(m.arrays, m.slice, Elems(m.arrays, l.attrs))
           a2 == append(a1.arrays, a1.slice, attrs)
       IN /\ arrays' = a2.arrays
          /\ loggers' = Append(loggers,
                 [Logger |-> [provider |-> l.Logger.provider,
                              name |-> l.Logger.name, options |-> <<>>],
                  attrs |-> a2.slice])
    /\ derived' = Append(derived,
                     [op |-> "WithAttr", recv |-> i, args |-> <<>>, attrs |-> attrs])
    /\ UNCHANGED <<pc, call, emitted, queried, newCalls, threads, enc, walk>>

\* Faulty variant: WithAttr() without attributes starts from an empty list
WithAttrFreshWhenEmpty(i, attrs) ==
    /\ pc = "idle"
    /\ Len(loggers) < MaxLoggers
    /\ LET l == loggers[i]
           kept == IF attrs = <<>> THEN <<>> ELSE Elems(arrays, l.attrs)
           m == make(arrays, Len(kept) + Len(attrs))
           a1 == append(m.arrays, m.slice, kept)
           a2 == append(a1.arrays, a1.slice, attrs)
       IN /\ arrays' = a2.arrays
          /\ loggers' = Append(loggers, [Logger |-> l.Logger, attrs |-> a2.slice])
    /\ derived' = Append(derived,
                     [op |-> "WithAttr", recv |-> i, args |-> <<>>, attrs |-> attrs])
    /\ UNCHANGED <<pc, call, emitted, queried, newCalls, threads, enc, walk>>

\* WithAttr returns a new Logger that includes the given attributes.
WithAttr(i, attrs) ==
    /\ pc = "idle"
    /\ Len(loggers) < MaxLoggers
    /\ LET l == loggers[i]
           m == make(arrays, l.attrs.len + Len(attrs))
           a1 == append(m.arrays, m.slice, Elems(m.arrays, l.attrs))
           a2 == append(a1.arrays, a1.slice, attrs)
       IN /\ arrays' = a2.arrays
          /\ loggers' = Append(loggers, [Logger |-> l.Logger, attrs |-> a2.slice])
    /\ derived' = Append(derived,
                     [op |-> "WithAttr", recv |-> i, args |-> <<>>, attrs |-> attrs])
    /\ UNCHANGED <<pc, call, emitted, queried, newCalls, threads, enc, walk>>

\* Faulty variants of With.
\* (a) the receiver is updated as well: l.attrs = combinedAttrs
WithInPlace(i, args) ==
    /\ pc = "idle"
    /\ Len(loggers) < MaxLoggers
    /\ LET l == loggers[i]
           newAttrs == convertArgsToKeyValues(args)
           m == make(arrays, l.attrs.len + Len(newAttrs))
           a1 == append(m.arrays, m.slice, Elems(m.arrays, l.attrs))
           a2 == append(a1.arrays, a1.slice, newAttrs)
       IN /\ arrays' = a2.arrays
          /\ loggers' = Append([loggers EXCEPT ![i].attrs = a2.slice],
                               [Logger |-> l.Logger, attrs |-> a2.slice])
    /\ derived' = Append(derived,
                     [op |-> "With", recv |-> i, args |-> args, attrs |-> <<>>])
    /\ UNCHANGED <<pc, call, emitted, queried, newCalls, threads, enc, walk>>

\* (b) the two appends are swapped: the new attributes come first
WithNewFirst(i, args) ==
    /\ pc = "idle"
    /\ Len(loggers) < MaxLoggers
    /\ LET l == loggers[i]
           newAttrs == convertArgsToKeyValues(args)
           m == make(arrays, l.attrs.len + Len(newAttrs))
           a1 == append(m.arrays, m.slice, newAttrs)
           a2 == append(a1.arrays, a1.slice, Elems(a1.arrays, l.attrs))
       IN /\ arrays' = a2.arrays
          /\ loggers' = Append(loggers, [Logger |-> l.Logger, attrs |-> a2.slice])
    /\ derived' = Append(derived,
                     [op |-> "With", recv |-> i, args |-> args, attrs |-> <<>>])
    /\ UNCHANGED <<pc, call, emitted, queried, newCalls, threads, enc, walk>>

\* (c) the arguments are encoded only up to the first key that is not a string
WithStopAtBadKey(i, args) ==
    /\ pc = "idle"
    /\ Len(loggers) < MaxLoggers
    /\ LET l == loggers[i]
           newAttrs == convertArgsStopAtBadKey(args)
           m == make(arrays, l.attrs.len + Len(newAttrs))
           a1 == append(m.arrays, m.slice, Elems(m.arrays, l.attrs))
           a2 == append(a1.arrays, a1.slice, newAttrs)
       IN /\ arrays' = a2.arrays
          /\ loggers' = Append(loggers, [Logger |-> l.Logger, attrs |-> a2.slice])
    /\ derived' = Append(derived,
                     [op |-> "With", recv |-> i, args |-> args, attrs |-> <<>>])
    /\ UNCHANGED <<pc, call, emitted, queried, newCalls, threads, enc, walk>>

\* With returns a new Logger that includes the given key-value arguments.
With(i, args) ==
    /\ pc = "idle"
    /\ Len(loggers) < MaxLoggers
    /\ LET l == loggers[i]
           newAttrs == convertArgsToKeyValues(args)
           m == make(arrays, l.attrs.len + Len(newAttrs))
           a1 == append(m.arrays, m.slice, Elems(m.arrays, l.attrs))
           a2 == append(a1.arrays, a1.slice, newAttrs)
       IN /\ arrays' = a2.arrays
          /\ loggers' = Append(loggers, [Logger |-> l.Logger, attrs |-> a2.slice])
    /\ derived' = Append(derived,
                     [op |-> "With", recv |-> i, args |-> args, attrs |-> <<>>])
    /\ UNCHANGED <<pc, call, emitted, queried, newCalls, threads, enc, walk>>


(***************************************************************************)
(* log.Record: the zero value and the setters logger.go calls.             *)
(***************************************************************************)
ZeroRecord ==
    [Body |-> EmptyValue, EventName |-> "", Timestamp |-> "zero",
     Severity |-> SeverityUndefined, Attributes |-> <<>>]

SetBody(record, v) == [record EXCEPT !.Body = v]
SetEventName(record, name) == [record EXCEPT !.EventName = name]
SetTimestamp(record) == [record EXCEPT !.Timestamp = "now"]
SetSeverity(record, level) == [record EXCEPT !.Severity = level]
AddAttributes(record, attrs) == [record EXCEPT !.Attributes = @ \o attrs]

\* Emit under a fresh background context instead of the caller's
EmitBackground(l, ctx, record) ==
    emitted' = Append(emitted, [Logger |-> l.Logger, ctx |-> "background",
                                record |-> record])

\* l.Emit(ctx, record): the embedded backend logger receives the record
\* Faulty variant of Emit: the backend gets the record ahead of the earlier ones
EmitAhead(l, ctx, record) ==
    emitted' = <<[Logger |-> l.Logger, ctx |-> ctx, record |-> record]>> \o emitted

Emit(l, ctx, record) ==
    emitted' = Append(emitted, [Logger |-> l.Logger, ctx |-> ctx, record |-> record])

\* addArgsAsAttributes that leaves a dangling key out
addArgsAsAttributesPairsOnly(record, args) ==
    AddAttributes(record, convertArgsDropDangling(args))

\* addArgsAsAttributes processes alternating key-value arguments.
addArgsAsAttributes(record, args) ==
    AddAttributes(record, convertArgsToKeyValues(args))

\* Faulty variants of addAttributes.
\* (a) the call's arguments are added before the pre-configured attributes
addAttributesCallFirst(l, record, args) ==
    AddAttributes(addArgsAsAttributes(record, args), Elems(arrays, l.attrs))

\* (b) an argument whose key is already pre-configured is left out
addAttributesSkipKnownKeys(l, record, args) ==
    LET bound == Elems(arrays, l.attrs)
        known == {bound[j].Key : j \in DOMAIN bound}
    IN AddAttributes(AddAttributes(record, bound),
           SelectSeq(convertArgsToKeyValues(args), LAMBDA kv : kv.Key \notin known))

\* addAttributes: pre-configured attributes first, then the call's arguments.
addAttributes(l, record, args) ==
    addArgsAsAttributes(AddAttributes(record, Elems(arrays, l.attrs)), args)

\* addKeyValueAttributes: pre-configured attributes first, then the call's.
addKeyValueAttributes(l, record, attrs) ==
    AddAttributes(AddAttributes(record, Elems(arrays, l.attrs)), attrs)

\* Faulty variant of log: record.SetSeverity(level) is missing
logNoSeverity(l, ctx, level, msg, args) ==
    LET r1 == SetBody(ZeroRecord, StringValue(msg))
        r2 == SetTimestamp(r1)
    IN Emit(l, ctx, addAttributes(l, r2, args))

\* Faulty variant of log: a call with a dangling argument is given up
logOnlyWellFormed(l, ctx, level, msg, args) ==
    LET r1 == SetBody(ZeroRecord, StringValue(msg))
        r2 == SetTimestamp(r1)
        r3 == SetSeverity(r2, level)
    IN IF Len(args) % 2 = 1
       THEN emitted' = emitted
       ELSE Emit(l, ctx, addAttributes(l, r3, args))

\* Faulty variant of log: the record is built and emitted only if the backend
\* is enabled at the level (from Info for recorderFromInfo, above Info for
\* recorderAboveInfo)
logIfEnabled(l, ctx, level, msg, args) ==
    LET r1 == SetBody(ZeroRecord, StringValue(msg))
        r2 == SetTimestamp(r1)
        r3 == SetSeverity(r2, level)
    IN IF \/ l.Logger = "recorderFromInfo" /\ level < SeverityInfo
          \/ l.Logger = "recorderAboveInfo" /\ level <= SeverityInfo
       THEN emitted' = emitted
       ELSE Emit(l, ctx, addAttributes(l, r3, args))

\* log is the internal logging method.
log(l, ctx, level, msg, args) ==
    LET r1 == SetBody(ZeroRecord, StringValue(msg))
        r2 == SetTimestamp(r1)
        r3 == SetSeverity(r2, level)
    IN Emit(l, ctx, addAttributes(l, r3, args))

\* logAttr is the internal logging method for log.KeyValue attributes.
logAttr(l, ctx, level, msg, attrs) ==
    LET r1 == SetBody(ZeroRecord, StringValue(msg))
        r2 == SetTimestamp(r1)
        r3 == SetSeverity(r2, level)
    IN Emit(l, ctx, addKeyValueAttributes(l, r3, attrs))

\* Faulty variant of logEvent: the name is stored as the body (copied from log)
logEventAsBody(l, ctx, level, name, args) ==
    LET r1 == SetBody(ZeroRecord, StringValue(name))
        r2 == SetTimestamp(r1)
        r3 == SetSeverity(r2, level)
    IN Emit(l, ctx, addAttributes(l, r3, args))

\* logEvent is the internal event logging method.
logEvent(l, ctx, level, name, args) ==
    LET r1 == SetEventName(ZeroRecord, name)
        r2 == SetTimestamp(r1)
        r3 == SetSeverity(r2, level)
    IN Emit(l, ctx, addAttributes(l, r3, args))

\* logEventAttr is the internal event logging method for log.KeyValue attributes.
logEventAttr(l, ctx, level, name, attrs) ==
    LET r1 == SetEventName(ZeroRecord, name)
        r2 == SetTimestamp(r1)
        r3 == SetSeverity(r2, level)
    IN Emit(l, ctx, addKeyValueAttributes(l, r3, attrs))

(***************************************************************************)
(* A call of a public logging method on loggers[i]: the frame records the  *)
(* method and its arguments as the caller passed them.                     *)
(***************************************************************************)
NoCall ==
    [op |-> "none", recv |-> 0, ctx |-> "", level |-> SeverityUndefined,
     text |-> "", args |-> <<>>, attrs |-> <<>>, result |-> <<>>]

Enter(op, i, ctx, level, text, args, attrs) ==
    /\ pc = "idle"
    /\ pc' = "returned"
    /\ call' = [op |-> op, recv |-> i, ctx |-> ctx, level |-> level,
                text |-> text, args |-> args, attrs |-> attrs, result |-> <<>>]
    /\ UNCHANGED <<loggers, arrays, derived, queried, newCalls, threads, enc, walk>>

\* the call returns to its caller; the backend has consumed the record
Return ==
    /\ pc = "returned"
    /\ pc' = "idle"
    /\ call' = NoCall
    /\ emitted' = <<>>
    /\ queried' = <<>>
    /\ UNCHANGED <<loggers, arrays, derived, newCalls, threads, enc, walk>>

Trace(i, ctx, msg, args) ==
    /\ Enter("Trace", i, ctx, SeverityUndefined, msg, args, <<>>)
    /\ log(loggers[i], ctx, SeverityTrace, msg, args)

Debug(i, ctx, msg, args) ==
    /\ Enter("Debug", i, ctx, SeverityUndefined, msg, args, <<>>)
    /\ log(loggers[i], ctx, SeverityDebug, msg, args)

Info(i, ctx, msg, args) ==
    /\ Enter("Info", i, ctx, SeverityUndefined, msg, args, <<>>)
    /\ log(loggers[i], ctx, SeverityInfo, msg, args)

Warn(i, ctx, msg, args) ==
    /\ Enter("Warn", i, ctx, SeverityUndefined, msg, args, <<>>)
    /\ log(loggers[i], ctx, SeverityWarn, msg, args)

Error(i, ctx, msg, args) ==
    /\ Enter("Error", i, ctx, SeverityUndefined, msg, args, <<>>)
    /\ log(loggers[i], ctx, SeverityError, msg, args)

Log(i, ctx, level, msg, args) ==
    /\ Enter("Log", i, ctx, level, msg, args, <<>>)
    /\ log(loggers[i], ctx, level, msg, args)

TraceEvent(i, ctx, name, args) ==
    /\ Enter("TraceEvent", i, ctx, SeverityUndefined, name, args, <<>>)
    /\ logEvent(loggers[i], ctx, SeverityTrace, name, args)

DebugEvent(i, ctx, name, args) ==
    /\ Enter("DebugEvent", i, ctx, SeverityUndefined, name, args, <<>>)
    /\ logEvent(loggers[i], ctx, SeverityDebug, name, args)

InfoEvent(i, ctx, name, args) ==
    /\ Enter("InfoEvent", i, ctx, SeverityUndefined, name, args, <<>>)
    /\ logEvent(loggers[i], ctx, SeverityInfo, name, args)

WarnEvent(i, ctx, name, args) ==
    /\ Enter("WarnEvent", i, ctx, SeverityUndefined, name, args, <<>>)
    /\ logEvent(loggers[i], ctx, SeverityWarn, name, args)

ErrorEvent(i, ctx, name, args) ==
    /\ Enter("ErrorEvent", i, ctx, SeverityUndefined, name, args, <<>>)
    /\ logEvent(loggers[i], ctx, SeverityError, name, args)

Event(i, ctx, level, name, args) ==
    /\ Enter("Event", i, ctx, level, name, args, <<>>)
    /\ logEvent(loggers[i], ctx, level, name, args)

TraceAttr(i, ctx, msg, attrs) ==
    /\ Enter("TraceAttr", i, ctx, SeverityUndefined, msg, <<>>, attrs)
    /\ logAttr(loggers[i], ctx, SeverityTrace, msg, attrs)

DebugAttr(i, ctx, msg, attrs) ==
    /\ Enter("DebugAttr", i, ctx, SeverityUndefined, msg, <<>>, attrs)
    /\ logAttr(loggers[i], ctx, SeverityDebug, msg, attrs)

InfoAttr(i, ctx, msg, attrs) ==
    /\ Enter("InfoAttr", i, ctx, SeverityUndefined, msg, <<>>, attrs)
    /\ logAttr(loggers[i], ctx, SeverityInfo, msg, attrs)

WarnAttr(i, ctx, msg, attrs) ==
    /\ Enter("WarnAttr", i, ctx, SeverityUndefined, msg, <<>>, attrs)
    /\ logAttr(loggers[i], ctx, SeverityWarn, msg, attrs)

ErrorAttr(i, ctx, msg, attrs) ==
    /\ Enter("ErrorAttr", i, ctx, SeverityUndefined, msg, <<>>, attrs)
    /\ logAttr(loggers[i], ctx, SeverityError, msg, attrs)

LogAttr(i, ctx, level, msg, attrs) ==
    /\ Enter("LogAttr", i, ctx, level, msg, <<>>, attrs)
    /\ logAttr(loggers[i], ctx, level, msg, attrs)

TraceEventAttr(i, ctx, name, attrs) ==
    /\ Enter("TraceEventAttr", i, ctx, SeverityUndefined, name, <<>>, attrs)
    /\ logEventAttr(loggers[i], ctx, SeverityTrace, name, attrs)

DebugEventAttr(i, ctx, name, attrs) ==
    /\ Enter("DebugEventAttr", i, ctx, SeverityUndefined, name, <<>>, attrs)
    /\ logEventAttr(loggers[i], ctx, SeverityDebug, name, attrs)

InfoEventAttr(i, ctx, name, attrs) ==
    /\ Enter("InfoEventAttr", i, ctx, SeverityUndefined, name, <<>>, attrs)
    /\ logEventAttr(loggers[i], ctx, SeverityInfo, name, attrs)

WarnEventAttr(i, ctx, name, attrs) ==
    /\ Enter("WarnEventAttr", i, ctx, SeverityUndefined, name, <<>>, attrs)
    /\ logEventAttr(loggers[i], ctx, SeverityWarn, name, attrs)

ErrorEventAttr(i, ctx, name, attrs) ==
    /\ Enter("ErrorEventAttr", i, ctx, SeverityUndefined, name, <<>>, attrs)
    /\ logEventAttr(loggers[i], ctx, SeverityError, name, attrs)

EventAttr(i, ctx, level, name, attrs) ==
    /\ Enter("EventAttr", i, ctx, level, name, <<>>, attrs)
    /\ logEventAttr(loggers[i], ctx, level, name, attrs)

(***************************************************************************)
(* The enabled checks.  The backend answers a query by its own rule: the   *)
(* recorders of the tests answer yes to everything, yes from Info upwards, *)
(* or yes above Info only.                                                 *)
(***************************************************************************)
EnabledParameters(severity, eventName) ==
    [Severity |-> severity, EventName |-> eventName]

Recorders == {"recorder", "recorderFromInfo", "recorderAboveInfo"}

EnabledFunc(h, ctx, param) ==
    CASE h = "recorderFromInfo" -> param.Severity >= SeverityInfo
      [] h = "recorderAboveInfo" -> param.Severity > SeverityInfo
      [] OTHER -> TRUE

\* an enabled check that also hands the backend a record
EnabledProbing(op, i, ctx, eventName, param) ==
    /\ pc = "idle"
    /\ pc' = "returned"
    /\ queried' = Append(queried, [Logger |-> loggers[i].Logger, ctx |-> ctx,
                                   param |-> param])
    /\ emitted' = Append(emitted, [Logger |-> loggers[i].Logger, ctx |-> ctx,
                                   record |-> SetSeverity(ZeroRecord, param.Severity)])
    /\ call' = [op |-> op, recv |-> i, ctx |-> ctx, level |-> SeverityUndefined,
                text |-> eventName, args |-> <<>>, attrs |-> <<>>,
                result |-> <<EnabledFunc(loggers[i].Logger, ctx, param)>>]
    /\ UNCHANGED <<loggers, arrays, derived, newCalls, threads, enc, walk>>

\* return l.Enabled(ctx, param): the embedded backend logger receives the
\* query and its answer is the result of the call
Enabled(op, i, ctx, eventName, param) ==
    /\ pc = "idle"
    /\ pc' = "returned"
    /\ queried' = Append(queried, [Logger |-> loggers[i].Logger, ctx |-> ctx,
                                   param |-> param])
    /\ call' = [op |-> op, recv |-> i, ctx |-> ctx, level |-> SeverityUndefined,
                text |-> eventName, args |-> <<>>, attrs |-> <<>>,
                result |-> <<EnabledFunc(loggers[i].Logger, ctx, param)>>]
    /\ UNCHANGED <<loggers, arrays, derived, emitted, newCalls, threads, enc, walk>>

TraceEnabled(i, ctx) ==
    Enabled("TraceEnabled", i, ctx, "", EnabledParameters(SeverityTrace, ""))

DebugEnabled(i, ctx) ==
    Enabled("DebugEnabled", i, ctx, "", EnabledParameters(SeverityDebug, ""))

\* InfoEnabled asking about the Debug level
InfoEnabledAsDebug(i, ctx) ==
    Enabled("InfoEnabled", i, ctx, "", EnabledParameters(SeverityDebug, ""))

InfoEnabled(i, ctx) ==
    Enabled("InfoEnabled", i, ctx, "", EnabledParameters(SeverityInfo, ""))

WarnEnabled(i, ctx) ==
    Enabled("WarnEnabled", i, ctx, "", EnabledParameters(SeverityWarn, ""))

ErrorEnabled(i, ctx) ==
    Enabled("ErrorEnabled", i, ctx, "", EnabledParameters(SeverityError, ""))

TraceEventEnabled(i, ctx, eventName) ==
    Enabled("TraceEventEnabled", i, ctx, eventName,
            EnabledParameters(SeverityTrace, eventName))

DebugEventEnabled(i, ctx, eventName) ==
    Enabled("DebugEventEnabled", i, ctx, eventName,
            EnabledParameters(SeverityDebug, eventName))

InfoEventEnabled(i, ctx, eventName) ==
    Enabled("InfoEventEnabled", i, ctx, eventName,
            EnabledParameters(SeverityInfo, eventName))

WarnEventEnabled(i, ctx, eventName) ==
    Enabled("WarnEventEnabled", i, ctx, eventName,
            EnabledParameters(SeverityWarn, eventName))

ErrorEventEnabled(i, ctx, eventName) ==
    Enabled("ErrorEventEnabled", i, ctx, eventName,
            EnabledParameters(SeverityError, eventName))

(***************************************************************************)
(* The state after New(Options{Provider: p, Name: n}): one Logger wrapping *)
(* the backend handle, with no pre-bound attributes.                       *)
(***************************************************************************)
Handle == "otelLogger"

Init ==
    /\ loggers = <<NewLogger(Handle)>>
    /\ arrays = <<>>
    /\ derived = <<[op |-> "New", recv |-> 0, args |-> <<>>, attrs |-> <<>>]>>
    /\ pc = "idle"
    /\ call = NoCall
    /\ emitted = <<>>
    /\ queried = <<>>
    /\ newCalls = <<>>
    /\ threads = <<>>
    /\ walk = NoWalk
    /\ enc = [args |-> <<>>, out |-> <<>>, done |-> FALSE]

Next ==
    \/ \E i \in DOMAIN loggers, attrs \in BindAttrLists : WithAttr(i, attrs)
    \/ \E i \in DOMAIN loggers, args \in BindArgLists : With(i, args)
    \/ Return
    \/ \E i \in DOMAIN loggers, ctx \in Contexts, msg \in Msgs, args \in ArgLists :
           Trace(i, ctx, msg, args)
    \/ \E i \in DOMAIN loggers, ctx \in Contexts, msg \in Msgs, args \in ArgLists :
           Debug(i, ctx, msg, args)
    \/ \E i \in DOMAIN loggers, ctx \in Contexts, msg \in Msgs, args \in ArgLists :
           Info(i, ctx, msg, args)
    \/ \E i \in DOMAIN loggers, ctx \in Contexts, msg \in Msgs, args \in ArgLists :
           Warn(i, ctx, msg, args)
    \/ \E i \in DOMAIN loggers, ctx \in Contexts, msg \in Msgs, args \in ArgLists :
           Error(i, ctx, msg, args)
    \/ \E i \in DOMAIN loggers, ctx \in Contexts, level \in Levels, msg \in Msgs, args \in ArgLists :
           Log(i, ctx, level, msg, args)
    \/ \E i \in DOMAIN loggers, ctx \in Contexts, name \in Names, args \in ArgLists :
           TraceEvent(i, ctx, name, args)
    \/ \E i \in DOMAIN loggers, ctx \in Contexts, name \in Names, args \in ArgLists :
           DebugEvent(i, ctx, name, args)
    \/ \E i \in DOMAIN loggers, ctx \in Contexts, name \in Names, args \in ArgLists :
           InfoEvent(i, ctx, name, args)
    \/ \E i \in DOMAIN loggers, ctx \in Contexts, name \in Names, args \in ArgLists :
           WarnEvent(i, ctx, name, args)
    \/ \E i \in DOMAIN loggers, ctx \in Contexts, name \in Names, args \in ArgLists :
           ErrorEvent(i, ctx, name, args)
    \/ \E i \in DOMAIN loggers, ctx \in Contexts, level \in Levels, name \in Names, args \in ArgLists :
           Event(i, ctx, level, name, args)
    \/ \E i \in DOMAIN loggers, ctx \in Contexts, msg \in Msgs, attrs \in AttrLists :
           TraceAttr(i, ctx, msg, attrs)
    \/ \E i \in DOMAIN loggers, ctx \in Contexts, msg \in Msgs, attrs \in AttrLists :
           DebugAttr(i, ctx, msg, attrs)
    \/ \E i \in DOMAIN loggers, ctx \in Contexts, msg \in Msgs, attrs \in AttrLists :
           InfoAttr(i, ctx, msg, attrs)
    \/ \E i \in DOMAIN loggers, ctx \in Contexts, msg \in Msgs, attrs \in AttrLists :
           WarnAttr(i, ctx, msg, attrs)
    \/ \E i \in DOMAIN loggers, ctx \in Contexts, msg \in Msgs, attrs \in AttrLists :
           ErrorAttr(i, ctx, msg, attrs)
    \/ \E i \in DOMAIN loggers, ctx \in Contexts, level \in Levels, msg \in Msgs, attrs \in AttrLists :
           LogAttr(i, ctx, level, msg, attrs)
    \/ \E i \in DOMAIN loggers, ctx \in Contexts, name \in Names, attrs \in AttrLists :
           TraceEventAttr(i, ctx, name, attrs)
    \/ \E i \in DOMAIN loggers, ctx \in Contexts, name \in Names, attrs \in AttrLists :
           DebugEventAttr(i, ctx, name, attrs)
    \/ \E i \in DOMAIN loggers, ctx \in Contexts, name \in Names, attrs \in AttrLists :
           InfoEventAttr(i, ctx, name, attrs)
    \/ \E i \in DOMAIN loggers, ctx \in Contexts, name \in Names, attrs \in AttrLists :
           WarnEventAttr(i, ctx, name, attrs)
    \/ \E i \in DOMAIN loggers, ctx \in Contexts, name \in Names, attrs \in AttrLists :
           ErrorEventAttr(i, ctx, name, attrs)
    \/ \E i \in DOMAIN loggers, ctx \in Contexts, level \in Levels, name \in Names, attrs \in AttrLists :
           EventAttr(i, ctx, level, name, attrs)

Spec == Init /\ [][Next]_vars

(***************************************************************************)
(* The specification of the enabled checks and of the context: the Logger  *)
(* wraps one of the recorders, and the calls are made under a plain        *)
(* context and under one that carries a value.                             *)
(***************************************************************************)
ValueContexts == {"background", "background.WithValue(test-key, test-value)"}
EventNames == {"user.login", "test.event"}
CheckedMsgs == {"started"}
CheckedArgLists == ArgLists
\* the attribute lists of the tests and those the encoder makes of the
\* argument lists, so that each call has its counterpart of the other form
CheckedAttrLists == AttrLists \cup {convertArgsToKeyValues(a) : a \in CheckedArgLists}
CheckedBindArgLists == {<<AnyString("port"), AnyInt(8080)>>}
CheckedBindAttrLists == {<<String("k", "v"), KeyValue("k", Int64Value(1))>>}

InitEnabled ==
    /\ loggers \in {<<NewLogger(h)>> : h \in Recorders}
    /\ arrays = <<>>
    /\ derived = <<[op |-> "New", recv |-> 0, args |-> <<>>, attrs |-> <<>>]>>
    /\ pc = "idle"
    /\ call = NoCall
    /\ emitted = <<>>
    /\ queried = <<>>
    /\ newCalls = <<>>
    /\ threads = <<>>
    /\ walk = NoWalk
    /\ enc = [args |-> <<>>, out |-> <<>>, done |-> FALSE]

NextEnabled ==
    \/ \E i \in DOMAIN loggers, attrs \in CheckedBindAttrLists : WithAttr(i, attrs)
    \/ \E i \in DOMAIN loggers, args \in CheckedBindArgLists : With(i, args)
    \/ Return
    \/ \E i \in DOMAIN loggers, ctx \in ValueContexts : TraceEnabled(i, ctx)
    \/ \E i \in DOMAIN loggers, ctx \in ValueContexts : DebugEnabled(i, ctx)
    \/ \E i \in DOMAIN loggers, ctx \in ValueContexts : InfoEnabled(i, ctx)
    \/ \E i \in DOMAIN loggers, ctx \in ValueContexts : WarnEnabled(i, ctx)
    \/ \E i \in DOMAIN loggers, ctx \in ValueContexts : ErrorEnabled(i, ctx)
    \/ \E i \in DOMAIN loggers, ctx \in ValueContexts, n \in EventNames :
           TraceEventEnabled(i, ctx, n)
    \/ \E i \in DOMAIN loggers, ctx \in ValueContexts, n \in EventNames :
           DebugEventEnabled(i, ctx, n)
    \/ \E i \in DOMAIN loggers, ctx \in ValueContexts, n \in EventNames :
           InfoEventEnabled(i, ctx, n)
    \/ \E i \in DOMAIN loggers, ctx \in ValueContexts, n \in EventNames :
           WarnEventEnabled(i, ctx, n)
    \/ \E i \in DOMAIN loggers, ctx \in ValueContexts, n \in EventNames :
           ErrorEventEnabled(i, ctx, n)
    \/ \E i \in DOMAIN loggers, ctx \in ValueContexts, msg \in CheckedMsgs, args \in CheckedArgLists :
           Trace(i, ctx, msg, args)
    \/ \E i \in DOMAIN loggers, ctx \in ValueContexts, msg \in CheckedMsgs, args \in CheckedArgLists :
           Debug(i, ctx, msg, args)
    \/ \E i \in DOMAIN loggers, ctx \in ValueContexts, msg \in CheckedMsgs, args \in CheckedArgLists :
           Info(i, ctx, msg, args)
    \/ \E i \in DOMAIN loggers, ctx \in ValueContexts, msg \in CheckedMsgs, args \in CheckedArgLists :
           Warn(i, ctx, msg, args)
    \/ \E i \in DOMAIN loggers, ctx \in ValueContexts, msg \in CheckedMsgs, args \in CheckedArgLists :
           Error(i, ctx, msg, args)
    \/ \E i \in DOMAIN loggers, ctx \in ValueContexts, level \in Levels, msg \in CheckedMsgs, args \in CheckedArgLists :
           Log(i, ctx, level, msg, args)
    \/ \E i \in DOMAIN loggers, ctx \in ValueContexts, name \in Names, args \in CheckedArgLists :
           TraceEvent(i, ctx, name, args)
    \/ \E i \in DOMAIN loggers, ctx \in ValueContexts, name \in Names, args \in CheckedArgLists :
           DebugEvent(i, ctx, name, args)
    \/ \E i \in DOMAIN loggers, ctx \in ValueContexts, name \in Names, args \in CheckedArgLists :
           InfoEvent(i, ctx, name, args)
    \/ \E i \in DOMAIN loggers, ctx \in ValueContexts, name \in Names, args \in CheckedArgLists :
           WarnEvent(i, ctx, name, args)
    \/ \E i \in DOMAIN loggers, ctx \in ValueContexts, name \in Names, args \in CheckedArgLists :
           ErrorEvent(i, ctx, name, args)
    \/ \E i \in DOMAIN loggers, ctx \in ValueContexts, level \in Levels, name \in Names, args \in CheckedArgLists :
           Event(i, ctx, level, name, args)
    \/ \E i \in DOMAIN loggers, ctx \in ValueContexts, msg \in CheckedMsgs, attrs \in CheckedAttrLists :
           TraceAttr(i, ctx, msg, attrs)
    \/ \E i \in DOMAIN loggers, ctx \in ValueContexts, msg \in CheckedMsgs, attrs \in CheckedAttrLists :
           DebugAttr(i, ctx, msg, attrs)
    \/ \E i \in DOMAIN loggers, ctx \in ValueContexts, msg \in CheckedMsgs, attrs \in CheckedAttrLists :
           InfoAttr(i, ctx, msg, attrs)
    \/ \E i \in DOMAIN loggers, ctx \in ValueContexts, msg \in CheckedMsgs, attrs \in CheckedAttrLists :
           WarnAttr(i, ctx, msg, attrs)
    \/ \E i \in DOMAIN loggers, ctx \in ValueContexts, msg \in CheckedMsgs, attrs \in CheckedAttrLists :
           ErrorAttr(i, ctx, msg, attrs)
    \/ \E i \in DOMAIN loggers, ctx \in ValueContexts, level \in Levels, msg \in CheckedMsgs, attrs \in CheckedAttrLists :
           LogAttr(i, ctx, level, msg, attrs)
    \/ \E i \in DOMAIN loggers, ctx \in ValueContexts, name \in Names, attrs \in CheckedAttrLists :
           TraceEventAttr(i, ctx, name, attrs)
    \/ \E i \in DOMAIN loggers, ctx \in ValueContexts, name \in Names, attrs \in CheckedAttrLists :
           DebugEventAttr(i, ctx, name, attrs)
    \/ \E i \in DOMAIN loggers, ctx \in ValueContexts, name \in Names, attrs \in CheckedAttrLists :
           InfoEventAttr(i, ctx, name, attrs)
    \/ \E i \in DOMAIN loggers, ctx \in ValueContexts, name \in Names, attrs \in CheckedAttrLists :
           WarnEventAttr(i, ctx, name, attrs)
    \/ \E i \in DOMAIN loggers, ctx \in ValueContexts, name \in Names, attrs \in CheckedAttrLists :
           ErrorEventAttr(i, ctx, name, attrs)
    \/ \E i \in DOMAIN loggers, ctx \in ValueContexts, level \in Levels, name \in Names, attrs \in CheckedAttrLists :
           EventAttr(i, ctx, level, name, attrs)

SpecEnabled == InitEnabled /\ [][NextEnabled]_vars

(***************************************************************************)
(* The caller resolver.  A string is a sequence of characters; "" is <<>>. *)
(* A frame of the call stack is a function with its name, or a frame for   *)
(* which runtime.FuncForPC has no function.                                *)
(***************************************************************************)
\* the position (from 0) of the first "(" in funcName at or after i, or -1
RECURSIVE firstParen(_, _)
firstParen(funcName, i) ==
    IF i >= Len(funcName) THEN -1
    ELSE IF funcName[i + 1] = "(" THEN i
    ELSE firstParen(funcName, i + 1)

\* the position (from 0) of the last "." in funcName before searchEnd, or -1
lastDotBefore(funcName, searchEnd) ==
    LET dots == {i \in 0..(searchEnd - 1) : funcName[i + 1] = "."}
    IN IF dots = {} THEN -1 ELSE CHOOSE i \in dots : \A j \in dots : j <= i

\* Faulty variant: the last dot of the whole name, parentheses or not
extractBeforeLastDot(funcName) ==
    LET lastDot == lastDotBefore(funcName, Len(funcName))
    IN IF lastDot >= 0 THEN SubSeq(funcName, 1, lastDot) ELSE <<>>

\* extractPackageFromFuncName extracts the package name from a full function name.
extractPackageFromFuncName(funcName) ==
    LET parenPos == firstParen(funcName, 0)
        searchEnd == IF parenPos >= 0 THEN parenPos ELSE Len(funcName)
        lastDot == lastDotBefore(funcName, searchEnd)
    IN IF lastDot >= 0 THEN SubSeq(funcName, 1, lastDot) ELSE <<>>

Unknown == <<"u", "n", "k", "n", "o", "w", "n">>

NoFunc == [fn |-> FALSE, name |-> <<>>]
Func(name) == [fn |-> TRUE, name |-> name]

\* the loop of getCallerPackage from frame i on: runtime.Caller(i) is
\* stack[i + 1], and is not ok beyond the end of the stack
RECURSIVE callerLoop(_, _)
callerLoop(stack, i) ==
    IF i >= Len(stack) THEN Unknown
    ELSE IF ~stack[i + 1].fn THEN callerLoop(stack, i + 1)
    ELSE LET pkg == extractPackageFromFuncName(stack[i + 1].name)
         IN IF pkg # <<>> THEN pkg ELSE callerLoop(stack, i + 1)

\* getCallerPackage returns the full package name of the caller.
getCallerPackage(stack) == callerLoop(stack, 2)

(***************************************************************************)
(* Function names as the Go runtime reports them, for a package path pkg:  *)
(* a function F, a method M of pointer receiver T, a method M of value     *)
(* receiver T, and the first function literal inside a function.           *)
(***************************************************************************)
PlainFunc(pkg) == pkg \o <<".", "F">>
PointerMethod(pkg) == pkg \o <<".", "(", "*", "T", ")", ".", "M">>
ValueMethod(pkg) == pkg \o <<".", "T", ".", "M">>
FuncLit(name) == name \o <<".", "f", "1">>

\* "g.c/p" stands for a package path such as github.com/pellared/olog_test,
\* "g.c/o" for github.com/pellared/olog itself
CallerPkg == <<"g", ".", "c", "/", "p">>
OlogPkg == <<"g", ".", "c", "/", "o">>

\* the callers of New: what calls it, and the package it is in
Callers ==
    { [kind |-> "function", pkg |-> CallerPkg, name |-> PlainFunc(CallerPkg)],
      [kind |-> "pointer method", pkg |-> CallerPkg, name |-> PointerMethod(CallerPkg)],
      [kind |-> "value method", pkg |-> CallerPkg, name |-> ValueMethod(CallerPkg)],
      [kind |-> "literal in function", pkg |-> CallerPkg,
       name |-> FuncLit(PlainFunc(CallerPkg))],
      [kind |-> "literal in pointer method", pkg |-> CallerPkg,
       name |-> FuncLit(PointerMethod(CallerPkg))],
      [kind |-> "literal in value method", pkg |-> CallerPkg,
       name |-> FuncLit(ValueMethod(CallerPkg))] }

\* the frames above the caller of New: the test runner, or a frame without
\* function information and then one whose name has no dot
OuterFrames ==
    { << Func(<<"t", ".", "R">>) >>,
      << NoFunc, Func(<<"m">>) >> }

\* the stack getCallerPackage sees: itself, New, the caller, the outer frames
StackOf(caller, outer) ==
    << Func(OlogPkg \o <<".", "g">>), Func(OlogPkg \o <<".", "N">>),
       Func(caller.name) >> \o outer

(***************************************************************************)
(* New.  A provider hands out the handle of the scope asked for: the name  *)
(* and the options of the request.                                         *)
(***************************************************************************)
MaxNew == 1

NilProvider == "nil"
GlobalProvider == "global"
NoAttributes == <<>>

Providers == {NilProvider, "recorder"}
OptionNames == {<<>>, <<"a", "p", "p">>}
Versions == {"", "2.1.0"}
AttributeSets == {NoAttributes, <<[Key |-> "component", Value |-> "database"]>>}

OptionsSet ==
    [Provider : Providers, Name : OptionNames, Version : Versions,
     Attributes : AttributeSets]

WithInstrumentationVersion(version) ==
    [option |-> "WithInstrumentationVersion", value |-> version]
WithInstrumentationAttributes(attrs) ==
    [option |-> "WithInstrumentationAttributes", value |-> attrs]

\* provider.Logger(name, loggerOptions...)
ProviderLogger(provider, name, loggerOptions) ==
    [provider |-> provider, name |-> name, options |-> loggerOptions]

\* Faulty variants of New.
\* (a) the caller's package is looked up whatever the options say
NewAlwaysResolving(options, caller, outer) ==
    /\ pc = "idle"
    /\ Len(loggers) < MaxNew
    /\ LET stack == StackOf(caller, outer)
           provider == IF options.Provider = NilProvider
                       THEN GlobalProvider ELSE options.Provider
           name == getCallerPackage(stack)
           o1 == IF options.Version # ""
                 THEN <<WithInstrumentationVersion(options.Version)>> ELSE <<>>
           loggerOptions ==
               IF Len(options.Attributes) > 0
               THEN Append(o1, WithInstrumentationAttributes(options.Attributes))
               ELSE o1
           otelLogger == ProviderLogger(provider, name, loggerOptions)
       IN /\ newCalls' =
                 << [fn |-> "New", options |-> options, caller |-> caller,
                     stack |-> stack] >>
                 \o (IF options.Provider = NilProvider
                     THEN <<[fn |-> "GetLoggerProvider"]>> ELSE <<>>)
                 \o <<[fn |-> "getCallerPackage", result |-> name]>>
                 \o <<[fn |-> "Logger", handle |-> otelLogger]>>
          /\ loggers' = Append(loggers, NewLogger(otelLogger))
    /\ derived' = Append(derived,
                     [op |-> "New", recv |-> 0, args |-> <<>>, attrs |-> <<>>])
    /\ UNCHANGED <<arrays, pc, call, emitted, queried, threads, enc, walk>>

\* (b) Options.Attributes are bound to the Logger as well
NewBindingAttributes(options, caller, outer) ==
    /\ pc = "idle"
    /\ Len(loggers) < MaxNew
    /\ LET stack == StackOf(caller, outer)
           provider == IF options.Provider = NilProvider
                       THEN GlobalProvider ELSE options.Provider
           name == IF options.Name = <<>> THEN getCallerPackage(stack)
                   ELSE options.Name
           o1 == IF options.Version # ""
                 THEN <<WithInstrumentationVersion(options.Version)>> ELSE <<>>
           loggerOptions ==
               IF Len(options.Attributes) > 0
               THEN Append(o1, WithInstrumentationAttributes(options.Attributes))
               ELSE o1
           otelLogger == ProviderLogger(provider, name, loggerOptions)
           bound == [j \in DOMAIN options.Attributes |->
                        String(options.Attributes[j].Key, options.Attributes[j].Value)]
           m == make(arrays, Len(bound))
           a1 == append(m.arrays, m.slice, bound)
       IN /\ newCalls' =
                 << [fn |-> "New", options |-> options, caller |-> caller,
                     stack |-> stack] >>
                 \o (IF options.Provider = NilProvider
                     THEN <<[fn |-> "GetLoggerProvider"]>> ELSE <<>>)
                 \o (IF options.Name = <<>>
                     THEN <<[fn |-> "getCallerPackage", result |-> name]>> ELSE <<>>)
                 \o <<[fn |-> "Logger", handle |-> otelLogger]>>
          /\ arrays' = a1.arrays
          /\ loggers' = Append(loggers, [Logger |-> otelLogger, attrs |-> a1.slice])
    /\ derived' = Append(derived,
                     [op |-> "New", recv |-> 0, args |-> <<>>, attrs |-> <<>>])
    /\ UNCHANGED <<pc, call, emitted, queried, threads, enc, walk>>

\* New creates a new Logger with the provided options.  newCalls keeps the
\* options and the stack of the call, and what New called on the way.
New(options, caller, outer) ==
    /\ pc = "idle"
    /\ Len(loggers) < MaxNew
    /\ LET stack == StackOf(caller, outer)
           provider == IF options.Provider = NilProvider
                       THEN GlobalProvider ELSE options.Provider
           name == IF options.Name = <<>> THEN getCallerPackage(stack)
                   ELSE options.Name
           o1 == IF options.Version # ""
                 THEN <<WithInstrumentationVersion(options.Version)>> ELSE <<>>
           loggerOptions ==
               IF Len(options.Attributes) > 0
               THEN Append(o1, WithInstrumentationAttributes(options.Attributes))
               ELSE o1
           otelLogger == ProviderLogger(provider, name, loggerOptions)
       IN /\ newCalls' =
                 << [fn |-> "New", options |-> options, caller |-> caller,
                     stack |-> stack] >>
                 \o (IF options.Provider = NilProvider
                     THEN <<[fn |-> "GetLoggerProvider"]>> ELSE <<>>)
                 \o (IF options.Name = <<>>
                     THEN <<[fn |-> "getCallerPackage", result |-> name]>> ELSE <<>>)
                 \o <<[fn |-> "Logger", handle |-> otelLogger]>>
          /\ loggers' = Append(loggers, NewLogger(otelLogger))
    /\ derived' = Append(derived,
                     [op |-> "New", recv |-> 0, args |-> <<>>, attrs |-> <<>>])
    /\ UNCHANGED <<arrays, pc, call, emitted, queried, threads, enc, walk>>

(***************************************************************************)
(* The specification of New: no Logger at the start; New builds one, and   *)
(* logging calls of the four internal paths are made on it.                *)
(***************************************************************************)
InitNew ==
    /\ loggers = <<>>
    /\ arrays = <<>>
    /\ derived = <<>>
    /\ pc = "idle"
    /\ call = NoCall
    /\ emitted = <<>>
    /\ queried = <<>>
    /\ newCalls = <<>>
    /\ threads = <<>>
    /\ walk = NoWalk
    /\ enc = [args |-> <<>>, out |-> <<>>, done |-> FALSE]

NextNew ==
    \/ \E options \in OptionsSet, caller \in Callers, outer \in OuterFrames :
           New(options, caller, outer)
    \/ Return
    \/ \E i \in DOMAIN loggers, ctx \in Contexts, msg \in CheckedMsgs, args \in ArgLists :
           Info(i, ctx, msg, args)
    \/ \E i \in DOMAIN loggers, ctx \in Contexts, msg \in CheckedMsgs, attrs \in AttrLists :
           InfoAttr(i, ctx, msg, attrs)
    \/ \E i \in DOMAIN loggers, ctx \in Contexts, name \in Names, args \in ArgLists :
           InfoEvent(i, ctx, name, args)
    \/ \E i \in DOMAIN loggers, ctx \in Contexts, name \in Names, attrs \in AttrLists :
           InfoEventAttr(i, ctx, name, attrs)

SpecNew == InitNew /\ [][NextNew]_vars

(***************************************************************************)
(* The specification of call sequences: one caller makes up to MaxCalls    *)
(* logging calls, one after the other, on Loggers that share a handle; the *)
(* backend is a recorder that keeps every record in the order it got them, *)
(* so emitted is not emptied when a call returns.                          *)
(***************************************************************************)
MaxCalls == 3

ReturnRecorded ==
    /\ pc = "returned"
    /\ pc' = "idle"
    /\ call' = NoCall
    /\ queried' = <<>>
    /\ UNCHANGED <<loggers, arrays, derived, emitted, newCalls, threads, enc, walk>>

NextOrder ==
    \/ \E i \in DOMAIN loggers, attrs \in CheckedBindAttrLists : WithAttr(i, attrs)
    \/ ReturnRecorded
    \/ /\ Len(emitted) < MaxCalls
       /\ \E i \in DOMAIN loggers, ctx \in Contexts, msg \in CheckedMsgs,
             args \in CheckedBindArgLists : Info(i, ctx, msg, args)
    \/ /\ Len(emitted) < MaxCalls
       /\ \E i \in DOMAIN loggers, ctx \in Contexts, msg \in CheckedMsgs,
             attrs \in {<<>>} : WarnAttr(i, ctx, msg, attrs)
    \/ /\ Len(emitted) < MaxCalls
       /\ \E i \in DOMAIN loggers, ctx \in Contexts, name \in Names,
             args \in {<<>>} : ErrorEvent(i, ctx, name, args)

SpecOrder == Init /\ [][NextOrder]_vars

(***************************************************************************)
(* The specification of derivation from a Logger that New built: New, then *)
(* chains of With and WithAttr, with logging calls on every Logger.        *)
(***************************************************************************)
\* Options with and without a version and instrumentation attributes
DeriveOptions ==
    { [Provider |-> "recorder", Name |-> <<"a", "p", "p">>, Version |-> "",
       Attributes |-> NoAttributes],
      [Provider |-> "recorder", Name |-> <<>>, Version |-> "2.1.0",
       Attributes |-> <<[Key |-> "component", Value |-> "database"]>>] }

NextDerive ==
    \/ \E options \in DeriveOptions, caller \in {c \in Callers : c.kind = "function"},
          outer \in { <<Func(<<"t", ".", "R">>)>> } :
           New(options, caller, outer)
    \/ \E i \in DOMAIN loggers, attrs \in CheckedBindAttrLists : WithAttr(i, attrs)
    \/ \E i \in DOMAIN loggers, args \in CheckedBindArgLists : With(i, args)
    \/ Return
    \/ \E i \in DOMAIN loggers, ctx \in Contexts, msg \in CheckedMsgs,
          args \in CheckedBindArgLists : Info(i, ctx, msg, args)
    \/ \E i \in DOMAIN loggers, ctx \in Contexts, name \in Names,
          attrs \in CheckedBindAttrLists : ErrorEventAttr(i, ctx, name, attrs)

SpecDerive == InitNew /\ [][NextDerive]_vars

(***************************************************************************)
(* Concurrent callers.  Several goroutines call methods of one shared      *)
(* Logger, loggers[Shared], at the same time.  A call runs in steps, one   *)
(* step per statement that reads the Logger or the heap or hands something *)
(* to the backend, and the steps of different goroutines interleave.       *)
(* threads[t] holds the call of goroutine t, its position and its locals.  *)
(***************************************************************************)
NumThreads == 2
Shared == 2
SharedAttrs == <<String("k", "v"), KeyValue("k", Int64Value(1))>>

ThreadCall(op, text, args, attrs) ==
    [op |-> op, ctx |-> "background", text |-> text, args |-> args, attrs |-> attrs]

\* the calls a goroutine may make on the shared Logger
ThreadCalls ==
    { ThreadCall("With", "", <<AnyString("port"), AnyInt(8080)>>, <<>>),
      ThreadCall("WithAttr", "", <<>>, <<String("k", "w")>>),
      ThreadCall("Info", "started", <<AnyString("port"), AnyInt(8080)>>, <<>>),
      ThreadCall("WarnAttr", "started", <<>>, <<String("k", "w")>>),
      ThreadCall("ErrorEvent", "user.login", <<AnyString("port")>>, <<>>),
      ThreadCall("DebugEventAttr", "user.login", <<>>, <<String("k", "w")>>),
      ThreadCall("InfoEventEnabled", "user.login", <<>>, <<>>) }

ComposeOps == {"With", "WithAttr"}
RecordOps == {"Info", "WarnAttr", "ErrorEvent", "DebugEventAttr"}
AskOps == {"InfoEventEnabled"}

\* the severity the method passes on
ThreadSeverity(op) ==
    CASE op = "Info" -> SeverityInfo
      [] op = "WarnAttr" -> SeverityWarn
      [] op = "ErrorEvent" -> SeverityError
      [] op = "DebugEventAttr" -> SeverityDebug
      [] op = "InfoEventEnabled" -> SeverityInfo

\* a goroutine about to run its call
Started(c) ==
    [call |-> c,
     pc |-> IF c.op = "WithAttr" THEN "make" ELSE "start",
     newAttrs |-> c.attrs,
     combinedAttrs |-> nil,
     record |-> ZeroRecord,
     ret |-> <<>>]

\* the step of goroutine t moves it to position next with the locals changed
Step(t, next, changes) ==
    threads' = [threads EXCEPT ![t] = [changes EXCEPT !.pc = next]]

\* With: newAttrs := convertArgsToKeyValues(args)
WithConvert(t) ==
    /\ threads[t].call.op = "With"
    /\ threads[t].pc = "start"
    /\ Step(t, "make",
            [threads[t] EXCEPT !.newAttrs = convertArgsToKeyValues(threads[t].call.args)])
    /\ UNCHANGED <<loggers, arrays, derived, pc, call, emitted, queried, newCalls, enc,
                 walk>>

\* Faulty variant of CombineMake: the receiver takes the new, still empty list
CombineMakeInPlace(t) ==
    /\ threads[t].call.op \in ComposeOps
    /\ threads[t].pc = "make"
    /\ LET l == loggers[Shared]
           m == make(arrays, l.attrs.len + Len(threads[t].newAttrs))
       IN /\ arrays' = m.arrays
          /\ loggers' = [loggers EXCEPT ![Shared].attrs = m.slice]
          /\ Step(t, "copy", [threads[t] EXCEPT !.combinedAttrs = m.slice])
    /\ UNCHANGED <<derived, pc, call, emitted, queried, newCalls, enc, walk>>

\* combinedAttrs := make([]log.KeyValue, 0, len(l.attrs)+len(newAttrs))
CombineMake(t) ==
    /\ threads[t].call.op \in ComposeOps
    /\ threads[t].pc = "make"
    /\ LET l == loggers[Shared]
           m == make(arrays, l.attrs.len + Len(threads[t].newAttrs))
       IN /\ arrays' = m.arrays
          /\ Step(t, "copy", [threads[t] EXCEPT !.combinedAttrs = m.slice])
    /\ UNCHANGED <<loggers, derived, pc, call, emitted, queried, newCalls, enc,
                 walk>>

\* combinedAttrs = append(combinedAttrs, l.attrs...)
CombineCopy(t) ==
    /\ threads[t].call.op \in ComposeOps
    /\ threads[t].pc = "copy"
    /\ LET l == loggers[Shared]
           a == append(arrays, threads[t].combinedAttrs, Elems(arrays, l.attrs))
       IN /\ arrays' = a.arrays
          /\ Step(t, "add", [threads[t] EXCEPT !.combinedAttrs = a.slice])
    /\ UNCHANGED <<loggers, derived, pc, call, emitted, queried, newCalls, enc,
                 walk>>

\* combinedAttrs = append(combinedAttrs, newAttrs...)
CombineAdd(t) ==
    /\ threads[t].call.op \in ComposeOps
    /\ threads[t].pc = "add"
    /\ LET a == append(arrays, threads[t].combinedAttrs, threads[t].newAttrs)
       IN /\ arrays' = a.arrays
          /\ Step(t, "return", [threads[t] EXCEPT !.combinedAttrs = a.slice])
    /\ UNCHANGED <<loggers, derived, pc, call, emitted, queried, newCalls, enc,
                 walk>>

\* return &Logger{Logger: l.Logger, attrs: combinedAttrs}
CombineReturn(t) ==
    /\ threads[t].call.op \in ComposeOps
    /\ threads[t].pc = "return"
    /\ Step(t, "done",
            [threads[t] EXCEPT !.ret = <<[Logger |-> loggers[Shared].Logger,
                                          attrs |-> threads[t].combinedAttrs]>>])
    /\ UNCHANGED <<loggers, arrays, derived, pc, call, emitted, queried, newCalls, enc,
                 walk>>

\* var record log.Record; SetBody or SetEventName; SetTimestamp; SetSeverity
RecordBuild(t) ==
    /\ threads[t].call.op \in RecordOps
    /\ threads[t].pc = "start"
    /\ LET c == threads[t].call
           r1 == IF c.op \in {"Info", "WarnAttr"}
                 THEN SetBody(ZeroRecord, StringValue(c.text))
                 ELSE SetEventName(ZeroRecord, c.text)
           r2 == SetTimestamp(r1)
           r3 == SetSeverity(r2, ThreadSeverity(c.op))
       IN Step(t, "bound", [threads[t] EXCEPT !.record = r3])
    /\ UNCHANGED <<loggers, arrays, derived, pc, call, emitted, queried, newCalls, enc,
                 walk>>

\* record.AddAttributes(l.attrs...)
RecordBound(t) ==
    /\ threads[t].call.op \in RecordOps
    /\ threads[t].pc = "bound"
    /\ Step(t, "own",
            [threads[t] EXCEPT !.record =
                AddAttributes(@, Elems(arrays, loggers[Shared].attrs))])
    /\ UNCHANGED <<loggers, arrays, derived, pc, call, emitted, queried, newCalls, enc,
                 walk>>

\* addArgsAsAttributes(&record, args), or record.AddAttributes(attrs...)
RecordOwn(t) ==
    /\ threads[t].call.op \in RecordOps
    /\ threads[t].pc = "own"
    /\ LET c == threads[t].call
       IN Step(t, "emit",
               [threads[t] EXCEPT !.record =
                   IF c.op \in {"Info", "ErrorEvent"}
                   THEN addArgsAsAttributes(@, c.args)
                   ELSE AddAttributes(@, c.attrs)])
    /\ UNCHANGED <<loggers, arrays, derived, pc, call, emitted, queried, newCalls, enc,
                 walk>>

\* l.Emit(ctx, record)
RecordEmit(t) ==
    /\ threads[t].call.op \in RecordOps
    /\ threads[t].pc = "emit"
    /\ Emit(loggers[Shared], threads[t].call.ctx, threads[t].record)
    /\ Step(t, "done", threads[t])
    /\ UNCHANGED <<loggers, arrays, derived, pc, call, queried, newCalls, enc,
                 walk>>

\* return l.Enabled(ctx, log.EnabledParameters{...})
EnabledAsk(t) ==
    /\ threads[t].call.op \in AskOps
    /\ threads[t].pc = "start"
    /\ LET c == threads[t].call
           l == loggers[Shared]
           param == EnabledParameters(ThreadSeverity(c.op), c.text)
       IN /\ queried' = Append(queried, [Logger |-> l.Logger, ctx |-> c.ctx,
                                         param |-> param])
          /\ Step(t, "done",
                  [threads[t] EXCEPT !.ret = <<EnabledFunc(l.Logger, c.ctx, param)>>])
    /\ UNCHANGED <<loggers, arrays, derived, pc, call, emitted, newCalls, enc,
                 walk>>

\* the shared Logger is New(...).WithAttr(SharedAttrs...)
InitConc ==
    LET m == make(<<>>, Len(SharedAttrs))
        a == append(m.arrays, m.slice, SharedAttrs)
    IN /\ loggers = <<NewLogger(Handle), [Logger |-> Handle, attrs |-> a.slice]>>
       /\ arrays = a.arrays
       /\ derived = << [op |-> "New", recv |-> 0, args |-> <<>>, attrs |-> <<>>],
                       [op |-> "WithAttr", recv |-> 1, args |-> <<>>,
                        attrs |-> SharedAttrs] >>
       /\ pc = "idle"
       /\ call = NoCall
       /\ emitted = <<>>
       /\ queried = <<>>
       /\ newCalls = <<>>
       /\ threads \in [1..NumThreads -> {Started(c) : c \in ThreadCalls}]
       /\ walk = NoWalk
       /\ enc = [args |-> <<>>, out |-> <<>>, done |-> FALSE]

NextConc ==
    \/ \E t \in DOMAIN threads : WithConvert(t)
    \/ \E t \in DOMAIN threads : CombineMake(t)
    \/ \E t \in DOMAIN threads : CombineCopy(t)
    \/ \E t \in DOMAIN threads : CombineAdd(t)
    \/ \E t \in DOMAIN threads : CombineReturn(t)
    \/ \E t \in DOMAIN threads : RecordBuild(t)
    \/ \E t \in DOMAIN threads : RecordBound(t)
    \/ \E t \in DOMAIN threads : RecordOwn(t)
    \/ \E t \in DOMAIN threads : RecordEmit(t)
    \/ \E t \in DOMAIN threads : EnabledAsk(t)

SpecConc == InitConc /\ [][NextConc]_vars

(***************************************************************************)
(* The encoder specification: the argument list is drawn at the start and  *)
(* convertArgsToKeyValues is applied to it.                                *)
(***************************************************************************)
InitEnc ==
    /\ loggers = <<NewLogger(Handle)>>
    /\ arrays = <<>>
    /\ derived = <<[op |-> "New", recv |-> 0, args |-> <<>>, attrs |-> <<>>]>>
    /\ pc = "idle"
    /\ call = NoCall
    /\ emitted = <<>>
    /\ queried = <<>>
    /\ newCalls = <<>>
    /\ threads = <<>>
    /\ walk = NoWalk
    /\ enc \in {[args |-> a, out |-> <<>>, done |-> FALSE] : a \in EncArgLists}

NextEnc == Convert

SpecEnc == InitEnc /\ [][NextEnc]_vars

(***************************************************************************)
(* The normalizer specification: one pair ("k", v) is drawn at the start   *)
(* and encoded, which passes v through convertValue (logger.go:408-413).   *)
(***************************************************************************)
NormValues ==
    LET NarrowInts == {0, 42, 64}
        WideInts == NarrowInts \cup {8080, MaxInt64}
    IN
    {AnyString(s) : s \in {"", "test", "42"}}
    \cup {AnyNum(t, n) : t \in {"int8", "int16", "int32"}, n \in NarrowInts \cup {-1}}
    \cup {AnyNum(t, n) : t \in {"int", "int64"}, n \in WideInts \cup {-1, MinInt64}}
    \cup {AnyNum(t, n) : t \in {"uint8", "uint16", "uint32"}, n \in NarrowInts}
    \cup {AnyNum(t, n) : t \in {"uint", "uint64"},
                         n \in WideInts \cup {MaxInt64 + 1, MaxUint64}}
    \cup {AnyNum(t, n) : t \in FloatTypes, n \in {0, 3, -3}}
    \cup {AnyBool(b) : b \in BOOLEAN}
    \cup {AnyError(m) : m \in {"", "test error"}}
    \cup {AnyStruct(r) : r \in {"{}", "[1 2]"}}
    \cup {AnyNil}

InitVal ==
    /\ loggers = <<NewLogger(Handle)>>
    /\ arrays = <<>>
    /\ derived = <<[op |-> "New", recv |-> 0, args |-> <<>>, attrs |-> <<>>]>>
    /\ pc = "idle"
    /\ call = NoCall
    /\ emitted = <<>>
    /\ queried = <<>>
    /\ newCalls = <<>>
    /\ threads = <<>>
    /\ walk = NoWalk
    /\ enc \in {[args |-> <<AnyString("k"), v>>, out |-> <<>>, done |-> FALSE] :
                   v \in NormValues}

NextVal == Convert

SpecVal == InitVal /\ [][NextVal]_vars


(***************************************************************************)
(* The caller resolver on its own, statement by statement.                 *)
(*   for i := 2; ; i++ {                                                   *)
(*       pc, _, _, ok := runtime.Caller(i); if !ok { break }     "Caller"  *)
(*       fn := runtime.FuncForPC(pc); if fn == nil { continue }  "FuncForPC" *)
(*       name := fn.Name(); pkg := extractPackageFromFuncName(name)        *)
(*       if pkg != "" { return pkg }                             "extract" *)
(*   }                                                                     *)
(*   return "unknown"                                            "unknown" *)
(* The call stack is drawn at the start: the frames of getCallerPackage    *)
(* and New, and up to MaxDepth frames above them.                          *)
(***************************************************************************)
MaxDepth == 3

WalkFrames ==
    { NoFunc,
      Func(<<>>),
      Func(<<"m">>),
      Func(<<"(", "a", ".", "b">>),
      Func(PlainFunc(CallerPkg)),
      Func(PointerMethod(CallerPkg)),
      Func(<<"t", ".", "R">>),
      Func(Unknown \o <<".", "F">>) }

Stacks ==
    { << Func(OlogPkg \o <<".", "g">>), Func(OlogPkg \o <<".", "N">>) >> \o outer :
          outer \in SeqsUpTo(WalkFrames, MaxDepth) }

\* pc, _, _, ok := runtime.Caller(i); if !ok { break }
WalkCaller ==
    /\ walk.at = "Caller"
    /\ walk' = [walk EXCEPT !.at = IF walk.i < Len(walk.stack)
                                   THEN "FuncForPC" ELSE "unknown"]
    /\ UNCHANGED <<loggers, arrays, derived, pc, call, emitted, queried, newCalls,
                 threads, enc>>

\* Faulty variant of WalkFuncForPC: continue without the loop's i++
WalkFuncForPCAgain ==
    /\ walk.at = "FuncForPC"
    /\ walk' = IF walk.stack[walk.i + 1].fn
               THEN [walk EXCEPT !.at = "extract"]
               ELSE [walk EXCEPT !.at = "Caller"]
    /\ UNCHANGED <<loggers, arrays, derived, pc, call, emitted, queried, newCalls,
                 threads, enc>>

\* fn := runtime.FuncForPC(pc); if fn == nil { continue }
WalkFuncForPC ==
    /\ walk.at = "FuncForPC"
    /\ walk' = IF walk.stack[walk.i + 1].fn
               THEN [walk EXCEPT !.at = "extract"]
               ELSE [walk EXCEPT !.at = "Caller", !.i = walk.i + 1]
    /\ UNCHANGED <<loggers, arrays, derived, pc, call, emitted, queried, newCalls,
                 threads, enc>>

\* Faulty variant of WalkExtract: the first frame with a function is taken
WalkExtractAny ==
    /\ walk.at = "extract"
    /\ LET pkg == extractPackageFromFuncName(walk.stack[walk.i + 1].name)
       IN walk' = [walk EXCEPT !.at = "returned", !.result = pkg]
    /\ UNCHANGED <<loggers, arrays, derived, pc, call, emitted, queried, newCalls,
                 threads, enc>>

\* pkg := extractPackageFromFuncName(fn.Name()); if pkg != "" { return pkg }
WalkExtract ==
    /\ walk.at = "extract"
    /\ LET pkg == extractPackageFromFuncName(walk.stack[walk.i + 1].name)
       IN walk' = IF pkg # <<>>
                  THEN [walk EXCEPT !.at = "returned", !.result = pkg]
                  ELSE [walk EXCEPT !.at = "Caller", !.i = walk.i + 1]
    /\ UNCHANGED <<loggers, arrays, derived, pc, call, emitted, queried, newCalls,
                 threads, enc>>

\* return "unknown"
WalkUnknown ==
    /\ walk.at = "unknown"
    /\ walk' = [walk EXCEPT !.at = "exhausted", !.result = Unknown]
    /\ UNCHANGED <<loggers, arrays, derived, pc, call, emitted, queried, newCalls,
                 threads, enc>>

InitWalk ==
    /\ loggers = <<>>
    /\ arrays = <<>>
    /\ derived = <<>>
    /\ pc = "idle"
    /\ call = NoCall
    /\ emitted = <<>>
    /\ queried = <<>>
    /\ newCalls = <<>>
    /\ threads = <<>>
    /\ enc = [args |-> <<>>, out |-> <<>>, done |-> FALSE]
    /\ walk \in {[stack |-> s, i |-> 2, at |-> "Caller", result |-> <<>>] : s \in Stacks}

NextWalk ==
    \/ WalkCaller
    \/ WalkFuncForPC
    \/ WalkExtract
    \/ WalkUnknown

SpecWalk == InitWalk /\ [][NextWalk]_vars

\* the goroutine that called New keeps running
SpecWalkFair == SpecWalk /\ WF_vars(NextWalk)

(***************************************************************************)
(* extractPackageFromFuncName on its own: the function name is drawn at    *)
(* the start, from the names of caller_test.go and from every string of up *)
(* to MaxNameLen characters over a letter, a slash, a dot and the two      *)
(* parentheses.                                                            *)
(***************************************************************************)
MaxNameLen == 4

TestedNames ==
    { <<"p", "a", "c", "k", "a", "g", "e", "/", "p", "a", "t", "h", ".", "F", "u", "n",
          "c", "t", "i", "o", "n">>,
      <<"p", "a", "c", "k", "a", "g", "e", "/", "p", "a", "t", "h", ".", "(", "*", "T",
          "y", "p", "e", ")", ".", "M", "e", "t", "h", "o", "d">>,
      <<"g", "i", "t", "h", "u", "b", ".", "c", "o", "m", "/", "u", "s", "e", "r", "/",
          "p", "r", "o", "j", "e", "c", "t", "/", "i", "n", "t", "e", "r", "n", "a",
          "l", "/", "p", "k", "g", ".", "F", "u", "n", "c", "t", "i", "o", "n">>,
      <<"n", "o", "S", "e", "p", "a", "r", "a", "t", "o", "r">>,
      <<"n", "o", "p", "a", "c", "k", "a", "g", "e">>,
      <<"g", "i", "t", "h", "u", "b", ".", "c", "o", "m", "/", "p", "e", "l", "l", "a",
          "r", "e", "d", "/", "o", "l", "o", "g", ".", "(", "*", "L", "o", "g", "g",
          "e", "r", ")", ".", "I", "n", "f", "o">>,
      <<"g", "i", "t", "h", "u", "b", ".", "c", "o", "m", "/", "x", "/", "y", ".", "(",
          "*", "T", "y", "p", "e", ")", ".", "M", "e", "t", "h", "o", "d">> }

FuncNames == SeqsUpTo({"a", "/", ".", "(", ")"}, MaxNameLen) \cup TestedNames

ExtractCall ==
    /\ walk.at = "name"
    /\ walk' = [walk EXCEPT !.at = "extracted",
                            !.result = extractPackageFromFuncName(walk.stack[1].name)]
    /\ UNCHANGED <<loggers, arrays, derived, pc, call, emitted, queried, newCalls,
                 threads, enc>>

InitExtract ==
    /\ loggers = <<>>
    /\ arrays = <<>>
    /\ derived = <<>>
    /\ pc = "idle"
    /\ call = NoCall
    /\ emitted = <<>>
    /\ queried = <<>>
    /\ newCalls = <<>>
    /\ threads = <<>>
    /\ enc = [args |-> <<>>, out |-> <<>>, done |-> FALSE]
    /\ walk \in {[stack |-> <<Func(name)>>, i |-> 0, at |-> "name", result |-> <<>>] :
                    name \in FuncNames}

NextExtract == ExtractCall

SpecExtract == InitExtract /\ [][NextExtract]_vars

(***************************************************************************)
(* Vocabulary of the properties.                                           *)
(***************************************************************************)
Last(seq) == seq[Len(seq)]

MsgArgOps == {"Trace", "Debug", "Info", "Warn", "Error", "Log"}
MsgAttrOps == {"TraceAttr", "DebugAttr", "InfoAttr", "WarnAttr", "ErrorAttr", "LogAttr"}
EventArgOps ==
    {"TraceEvent", "DebugEvent", "InfoEvent", "WarnEvent", "ErrorEvent", "Event"}
EventAttrOps ==
    {"TraceEventAttr", "DebugEventAttr", "InfoEventAttr", "WarnEventAttr",
     "ErrorEventAttr", "EventAttr"}
MsgOps == MsgArgOps \cup MsgAttrOps
EventOps == EventArgOps \cup EventAttrOps
ArgOps == MsgArgOps \cup EventArgOps
GenericOps == {"Log", "LogAttr", "Event", "EventAttr"}

\* the severity a leveled method stands for
BaseSeverity(op) ==
    CASE op \in {"Trace", "TraceAttr", "TraceEvent", "TraceEventAttr"} -> SeverityTrace
      [] op \in {"Debug", "DebugAttr", "DebugEvent", "DebugEventAttr"} -> SeverityDebug
      [] op \in {"Info", "InfoAttr", "InfoEvent", "InfoEventAttr"} -> SeverityInfo
      [] op \in {"Warn", "WarnAttr", "WarnEvent", "WarnEventAttr"} -> SeverityWarn
      [] op \in {"Error", "ErrorAttr", "ErrorEvent", "ErrorEventAttr"} -> SeverityError

\* the severity the call asks for
AskedSeverity == IF call.op \in GenericOps THEN call.level ELSE BaseSeverity(call.op)

\* the attributes one With / WithAttr call bound, from the history
Given(d) == IF d.op = "With" THEN convertArgsToKeyValues(d.args) ELSE d.attrs

\* all attributes bound on the way from New to loggers[i], oldest first
RECURSIVE Bound(_)
Bound(i) ==
    IF derived[i].op = "New" THEN <<>>
    ELSE Bound(derived[i].recv) \o Given(derived[i])

\* the call's own attributes, in call order
CallAttrs == IF call.op \in ArgOps THEN convertArgsToKeyValues(call.args) ELSE call.attrs

\* the pre-bound list of loggers[i] as the heap holds it now
Attrs(i) == Elems(arrays, loggers[i].attrs)

\* C1: every emitted record carries the pre-bound attributes of its Logger in
\* binding order (oldest first), followed by the call's own attributes in call
\* order, for all four internal paths (log, logAttr, logEvent, logEventAttr).
C1_RecordAttributeOrder ==
    pc = "returned" =>
        /\ emitted # <<>>
        /\ \A k \in DOMAIN emitted :
               emitted[k].record.Attributes = Bound(call.recv) \o CallAttrs

C1_Witness ==
    /\ pc = "returned"
    /\ call.op = "WarnEvent"
    /\ derived[call.recv].op = "WithAttr"
    /\ derived[derived[call.recv].recv].op = "With"
    /\ Len(emitted) = 1
    /\ emitted[1].record.Attributes =
           << KeyValue("port", Int64Value(8080)),
              String("k", "v"), KeyValue("k", Int64Value(1)),
              String("k", "{}"), String("port", "") >>

\* C2: With, WithAttr and every logging call leave every existing Logger and its
\* pre-bound list as they were; With / WithAttr add one new Logger whose list is
\* a newly allocated array holding the receiver's list followed by the new
\* attributes; the Logger New returned keeps 0 pre-bound attributes.
C2_Step ==
    /\ \A i \in DOMAIN loggers :
           /\ i \in DOMAIN loggers'
           /\ loggers'[i] = loggers[i]
           /\ Elems(arrays', loggers'[i].attrs) = Elems(arrays, loggers[i].attrs)
    /\ Len(loggers') # Len(loggers) =>
           LET n == Len(loggers')
               d == derived'[n]
           IN /\ n = Len(loggers) + 1
              /\ d.recv \in DOMAIN loggers
              /\ loggers'[n].attrs.arr > Len(arrays)
              /\ Elems(arrays', loggers'[n].attrs) =
                     Elems(arrays, loggers[d.recv].attrs) \o Given(d)

C2_ReceiverUnchanged == [](Len(Attrs(1)) = 0) /\ [][C2_Step]_vars

C2_Witness ==
    /\ pc = "returned"
    /\ Len(loggers) = 3
    /\ derived[2].op = "With" /\ derived[2].recv = 1 /\ Len(Attrs(2)) = 2
    /\ derived[3].op = "WithAttr" /\ derived[3].recv = 1 /\ Len(Attrs(3)) = 2
    /\ Len(Attrs(1)) = 0

\* C3: no two Loggers share a backing array that holds attributes, and every
\* Logger still carries exactly the attributes bound on its own derivation
\* path, whatever was derived from its parent or from itself afterwards.
C3_NoAliasing ==
    /\ \A i, j \in DOMAIN loggers :
           (i # j /\ loggers[i].attrs.cap > 0 /\ loggers[j].attrs.cap > 0)
               => loggers[i].attrs.arr # loggers[j].attrs.arr
    /\ \A i \in DOMAIN loggers : Attrs(i) = Bound(i)

C3_Witness ==
    /\ Len(loggers) = 3
    /\ derived[2].op = "WithAttr" /\ derived[2].recv = 1
    /\ derived[3].op = "WithAttr" /\ derived[3].recv = 2
    /\ Len(Attrs(2)) = 2
    /\ Len(Attrs(3)) = 4
    /\ loggers[2].attrs.arr # loggers[3].attrs.arr

\* C4 as claimed: for all argument lists a and b, base.With(a).With(b) carries
\* base's attributes followed by the encoding of a and b flattened into one
\* list (for WithAttr: followed by a's and then b's attributes), and base's
\* list is unchanged.
C4_Chain(g) ==
    /\ derived[g].op = "With"
    /\ derived[derived[g].recv].op = "With"

C4_SameAsFlattened(g) ==
    LET c == derived[g].recv
        b == derived[c].recv
    IN /\ Attrs(g) = Attrs(b) \o convertArgsToKeyValues(derived[c].args \o derived[g].args)
       /\ Attrs(b) = Bound(b)

C4_AttrChain(g) ==
    /\ derived[g].op = "WithAttr"
    /\ derived[derived[g].recv].op = "WithAttr"

C4_AttrSameAsFlattened(g) ==
    LET c == derived[g].recv
        b == derived[c].recv
    IN /\ Attrs(g) = Attrs(b) \o (derived[c].attrs \o derived[g].attrs)
       /\ Attrs(b) = Bound(b)

C4_AssociativeForAllArgs ==
    \A g \in DOMAIN loggers :
        /\ C4_Chain(g) => C4_SameAsFlattened(g)
        /\ C4_AttrChain(g) => C4_AttrSameAsFlattened(g)

\* C4 amended: the same, for every a of even length (an odd-length a ends in a
\* dangling key that With(a) binds with an empty value, while the flattened
\* list pairs it with the first element of b).
C4_AssociativeForEvenFirstArgs ==
    \A g \in DOMAIN loggers :
        /\ (C4_Chain(g) /\ Len(derived[derived[g].recv].args) % 2 = 0)
               => C4_SameAsFlattened(g)
        /\ C4_AttrChain(g) => C4_AttrSameAsFlattened(g)

C4_Witness ==
    /\ Len(loggers) = 3
    /\ C4_Chain(3)
    /\ derived[2].args = <<AnyString("port"), AnyInt(8080)>>
    /\ derived[3].args = <<AnyInt(42), AnyString("x"), AnyString("k"), AnyString("v"),
                           AnyString("port")>>
    /\ Attrs(3) = << KeyValue("port", Int64Value(8080)), String("k", "v"),
                     String("port", "") >>
    /\ Len(Attrs(1)) = 0

\* C5 as claimed: for every argument list of odd length the encoding ends with
\* an attribute keyed by the final element and holding the empty string.
C5_DanglingAlwaysRetained ==
    (enc.done /\ Len(enc.args) % 2 = 1) =>
        /\ enc.out # <<>>
        /\ Last(enc.out).Value = StringValue("")
        /\ IsString(Last(enc.args)) => Last(enc.out).Key = Last(enc.args).s

\* C5 amended: for every argument list of odd length whose final element is a
\* string, the encoding ends with that key paired with the empty string.
C5_DanglingStringKeyRetained ==
    (enc.done /\ Len(enc.args) % 2 = 1 /\ IsString(Last(enc.args))) =>
        /\ enc.out # <<>>
        /\ Last(enc.out) = String(Last(enc.args).s, "")

C5_Witness ==
    /\ enc.done
    /\ enc.args = <<AnyString("a"), AnyString("b"), AnyString("b")>>
    /\ enc.out = <<String("a", "b"), String("b", "")>>

\* the pairs of an argument list, numbered from 0; pair j is (args[2j], args[2j+1])
PairCount(args) == (Len(args) + 1) \div 2
KeyOfPair(args, j) == args[2 * j + 1]
ValidPairs(args) ==
    SelectSeq([k \in 1..PairCount(args) |-> k - 1],
              LAMBDA j : IsString(KeyOfPair(args, j)))
AttrOfPair(args, j) ==
    KeyValue(KeyOfPair(args, j).s,
             IF 2 * j + 2 <= Len(args)
             THEN convertValue(args[2 * j + 2]) ELSE StringValue(""))

\* C6: when some key position holds a non-string, the encoding consists of
\* exactly the pairs with a string key, in their original order: the pair of
\* every non-string key is absent and nothing else is lost or moved.
C6_NonStringKeyPairDropped ==
    (enc.done /\ \E j \in 0..(PairCount(enc.args) - 1) : ~IsString(KeyOfPair(enc.args, j)))
        => enc.out = [k \in 1..Len(ValidPairs(enc.args)) |->
                          AttrOfPair(enc.args, ValidPairs(enc.args)[k])]

C6_Witness ==
    /\ enc.done
    /\ enc.args = <<AnyString("a"), AnyInt(42), AnyInt(42), AnyString("a"),
                    AnyString("b")>>
    /\ enc.out = <<KeyValue("a", Int64Value(42)), String("b", "")>>

\* C7: an argument list of even length n with a string in every key position
\* encodes to n/2 attributes, the j-th with key args[2j] and the normalized
\* value of args[2j+1].
C7_EvenListEncoding ==
    (/\ enc.done
     /\ Len(enc.args) % 2 = 0
     /\ \A j \in 0..(PairCount(enc.args) - 1) : IsString(KeyOfPair(enc.args, j)))
        => /\ Len(enc.out) = Len(enc.args) \div 2
           /\ \A j \in 1..Len(enc.out) :
                  enc.out[j] = KeyValue(enc.args[2 * j - 1].s,
                                        convertValue(enc.args[2 * j]))

C7_Witness ==
    /\ enc.done
    /\ enc.args = <<AnyString("b"), AnyInt(42), AnyString("a"), AnyError("boom")>>
    /\ enc.out = <<KeyValue("b", Int64Value(42)), String("a", "boom")>>

\* occurrences of key k in an attribute list, in the key positions of an
\* argument list, and on the derivation path of loggers[i]
CountKey(attrs, k) == Cardinality({j \in DOMAIN attrs : attrs[j].Key = k})
CountArgKey(args, k) ==
    Cardinality({j \in 0..(PairCount(args) - 1) :
                    IsString(KeyOfPair(args, j)) /\ KeyOfPair(args, j).s = k})
RECURSIVE CountBoundKey(_, _)
CountBoundKey(i, k) ==
    IF derived[i].op = "New" THEN 0
    ELSE CountBoundKey(derived[i].recv, k)
         + (IF derived[i].op = "With" THEN CountArgKey(derived[i].args, k)
                                      ELSE CountKey(derived[i].attrs, k))
CountCallKey(k) ==
    IF call.op \in ArgOps THEN CountArgKey(call.args, k) ELSE CountKey(call.attrs, k)

Keys == {"k", "port", "x"}

\* C8: the emitted record holds every occurrence of every key: as many
\* attributes with key k as were bound on the Logger's derivation path plus as
\* many as the call passed, each with its own value, pre-bound ones first.
C8_DuplicateKeysKept ==
    pc = "returned" =>
        \A e \in DOMAIN emitted :
            /\ \A k \in Keys :
                   CountKey(emitted[e].record.Attributes, k)
                       = CountBoundKey(call.recv, k) + CountCallKey(k)
            /\ SubSeq(emitted[e].record.Attributes, 1, Len(Attrs(call.recv)))
                   = Attrs(call.recv)
            /\ SubSeq(emitted[e].record.Attributes, Len(Attrs(call.recv)) + 1,
                      Len(emitted[e].record.Attributes)) = CallAttrs

C8_Witness ==
    /\ pc = "returned"
    /\ call.op = "Info"
    /\ call.args = <<AnyString("port"), AnyInt(8080)>>
    /\ derived[call.recv].op = "With"
    /\ derived[derived[call.recv].recv].op = "With"
    /\ Len(emitted) = 1
    /\ emitted[1].record.Attributes =
           << KeyValue("port", Int64Value(8080)), KeyValue("port", Int64Value(8080)),
              KeyValue("port", Int64Value(8080)) >>

\* C9: a message method emits a record whose severity is the level of the
\* method (the level passed, for Log and LogAttr), whose body is the msg string
\* and which has no event name; Info("started", "port", 8080) on the Logger New
\* returned gives exactly the attribute ("port", 8080) as a 64-bit integer.
C9_MessageRecord ==
    (pc = "returned" /\ call.op \in MsgOps) =>
        /\ Len(emitted) = 1
        /\ emitted[1].record.Severity = AskedSeverity
        /\ emitted[1].record.Body = StringValue(call.text)
        /\ emitted[1].record.EventName = ""
        /\ (/\ call.op = "Info"
            /\ call.recv = 1
            /\ call.args = <<AnyString("port"), AnyInt(8080)>>)
               => emitted[1].record.Attributes = <<KeyValue("port", Int64Value(8080))>>

C9_Witness ==
    /\ pc = "returned"
    /\ call.op = "Info"
    /\ call.recv = 1
    /\ call.text = "started"
    /\ call.args = <<AnyString("port"), AnyInt(8080)>>
    /\ emitted = << [Logger |-> Handle, ctx |-> call.ctx,
                     record |-> [Body |-> StringValue("started"), EventName |-> "",
                                 Timestamp |-> "now", Severity |-> SeverityInfo,
                                 Attributes |-> <<KeyValue("port", Int64Value(8080))>>]] >>

\* C10: an event method emits a record whose event name is the given name,
\* whose severity is the level of the method (the level passed, for Event and
\* EventAttr) and which has no body.
C10_EventRecord ==
    (pc = "returned" /\ call.op \in EventOps) =>
        /\ Len(emitted) = 1
        /\ emitted[1].record.EventName = call.text
        /\ emitted[1].record.Severity = AskedSeverity
        /\ emitted[1].record.Body = EmptyValue

C10_Witness ==
    /\ pc = "returned"
    /\ call.op = "Event"
    /\ call.level = SeverityWarn3
    /\ call.text = "user.login"
    /\ Len(emitted) = 1
    /\ emitted[1].record.EventName = "user.login"
    /\ emitted[1].record.Severity = SeverityWarn3
    /\ emitted[1].record.Body = EmptyValue

\* C11: every event record handed to the backend has a severity other than
\* the undefined one.  (The two-argument Event(ctx, name, args...) the claim
\* also speaks of is not a method of Logger: Event takes the level as its
\* second parameter and passes it on as it is.)
C11_EventsCarrySeverity ==
    (pc = "returned" /\ call.op \in EventOps) =>
        \A k \in DOMAIN emitted :
            emitted[k].record.Severity # SeverityUndefined

EnabledOps ==
    {"TraceEnabled", "DebugEnabled", "InfoEnabled", "WarnEnabled", "ErrorEnabled"}
EventEnabledOps ==
    {"TraceEventEnabled", "DebugEventEnabled", "InfoEventEnabled",
     "WarnEventEnabled", "ErrorEventEnabled"}
CheckOps == EnabledOps \cup EventEnabledOps

\* the severity an enabled check stands for
CheckedSeverity(op) ==
    CASE op \in {"TraceEnabled", "TraceEventEnabled"} -> SeverityTrace
      [] op \in {"DebugEnabled", "DebugEventEnabled"} -> SeverityDebug
      [] op \in {"InfoEnabled", "InfoEventEnabled"} -> SeverityInfo
      [] op \in {"WarnEnabled", "WarnEventEnabled"} -> SeverityWarn
      [] op \in {"ErrorEnabled", "ErrorEventEnabled"} -> SeverityError

\* the query the check is to put to the backend
CheckedQuery ==
    EnabledParameters(CheckedSeverity(call.op),
                      IF call.op \in EventEnabledOps THEN call.text ELSE "")

\* C12: XEnabled(ctx) puts the one query {severity X, no event name} to the
\* backend of its Logger and XEventEnabled(ctx, n) the one query {severity X,
\* event name n}, and the result is the backend's answer to it; so with the
\* backend enabled from Info upwards DebugEnabled is false and InfoEnabled,
\* WarnEnabled, ErrorEnabled are true, and with the backend enabled above Info
\* only, Trace/Debug/InfoEventEnabled are false and Warn/ErrorEventEnabled true.
C12_EnabledAnswer ==
    (pc = "returned" /\ call.op \in CheckOps) =>
        LET h == loggers[call.recv].Logger
        IN /\ Len(queried) = 1
           /\ queried[1].Logger = h
           /\ queried[1].param = CheckedQuery
           /\ call.result = <<EnabledFunc(h, call.ctx, CheckedQuery)>>
           /\ (h = "recorderFromInfo" /\ call.op = "DebugEnabled")
                  => call.result = <<FALSE>>
           /\ (h = "recorderFromInfo"
                  /\ call.op \in {"InfoEnabled", "WarnEnabled", "ErrorEnabled"})
                  => call.result = <<TRUE>>
           /\ (h = "recorderAboveInfo"
                  /\ call.op \in {"TraceEventEnabled", "DebugEventEnabled",
                                  "InfoEventEnabled"})
                  => call.result = <<FALSE>>
           /\ (h = "recorderAboveInfo"
                  /\ call.op \in {"WarnEventEnabled", "ErrorEventEnabled"})
                  => call.result = <<TRUE>>

C12_Witness ==
    /\ pc = "returned"
    /\ loggers[1].Logger = "recorderAboveInfo"
    /\ call.op = "InfoEventEnabled"
    /\ call.recv = 2
    /\ call.text = "test.event"
    /\ queried[1].param = EnabledParameters(SeverityInfo, "test.event")
    /\ call.result = <<FALSE>>

\* C13: an enabled check hands no record to Emit and leaves every Logger, its
\* backend handle and its pre-bound list as they were; what it changes is the
\* frame of the call only, which Return clears again, so the Loggers a later
\* logging call finds are those it would find without the check.
C13_Step ==
    (pc = "idle" /\ call'.op \in CheckOps) =>
        /\ emitted' = <<>>
        /\ loggers' = loggers
        /\ arrays' = arrays
        /\ \A i \in DOMAIN loggers :
               /\ loggers'[i].Logger = loggers[i].Logger
               /\ Elems(arrays', loggers'[i].attrs) = Elems(arrays, loggers[i].attrs)

C13_ReturnStep ==
    (pc = "returned" /\ call.op \in CheckOps /\ pc' = "idle") =>
        /\ emitted' = <<>> /\ queried' = <<>> /\ call' = NoCall
        /\ loggers' = loggers
        /\ arrays' = arrays

C13_EnabledChecksHaveNoEffect ==
    /\ []((pc = "returned" /\ call.op \in CheckOps) => emitted = <<>>)
    /\ [][C13_Step /\ C13_ReturnStep]_vars

C13_Witness ==
    /\ pc = "returned"
    /\ call.op = "WarnEventEnabled"
    /\ call.recv = 3
    /\ derived[3].recv = 2
    /\ Len(Attrs(3)) = 3
    /\ Len(queried) = 1
    /\ emitted = <<>>

LoggingOps == MsgOps \cup EventOps

\* C14: the context the backend receives, with the record of a logging call
\* and with the query of an enabled check, is the context the caller passed,
\* for the root Logger and for derived ones.
C14_ContextThreaded ==
    pc = "returned" =>
        /\ call.op \in LoggingOps => (Len(emitted) = 1 /\ queried = <<>>)
        /\ call.op \in CheckOps => (Len(queried) = 1 /\ emitted = <<>>)
        /\ \A k \in DOMAIN emitted : emitted[k].ctx = call.ctx
        /\ \A k \in DOMAIN queried : queried[k].ctx = call.ctx

C14_Witness ==
    /\ pc = "returned"
    /\ call.op = "Info"
    /\ call.recv = 2
    /\ call.ctx = "background.WithValue(test-key, test-value)"
    /\ Len(emitted) = 1
    /\ emitted[1].ctx = "background.WithValue(test-key, test-value)"
    /\ emitted[1].record.Body = StringValue("started")

\* the internal path of the Attr methods, applied to the Logger, context,
\* severity and text of the call that has just run, with the given attributes
AttrPath(attrs) ==
    IF call.op \in MsgOps
    THEN logAttr(loggers[call.recv], call.ctx, AskedSeverity, call.text, attrs)
    ELSE logEventAttr(loggers[call.recv], call.ctx, AskedSeverity, call.text, attrs)

\* C15: the record of an argument-based call is the record its Attr method
\* emits for the encoded arguments: every logging call, of either form, hands
\* the backend exactly the record the Attr path builds from the call's
\* severity, its message or event name, and encode(args) (or the attributes
\* as given, for an Attr method).
C15_OneRecordShape ==
    (pc = "returned" /\ call.op \in LoggingOps) =>
        /\ Len(emitted) = 1
        /\ ENABLED (AttrPath(CallAttrs) /\ emitted' = <<emitted[1], emitted[1]>>)

C15_Witness ==
    /\ pc = "returned"
    /\ call.op = "Debug"
    /\ call.recv = 2
    /\ call.args = <<AnyInt(42), AnyString("x"), AnyString("k"), AnyStruct("{}"),
                     AnyString("port")>>
    /\ Len(emitted) = 1
    /\ emitted[1].record.Attributes =
           Bound(2) \o <<String("k", "{}"), String("port", "")>>
    /\ <<String("k", "{}"), String("port", "")>> \in CheckedAttrLists

\* the counterpart of C15_Witness: DebugAttr with the encoded list
C15_WitnessAttr ==
    /\ pc = "returned"
    /\ call.op = "DebugAttr"
    /\ call.recv = 2
    /\ call.attrs = <<String("k", "{}"), String("port", "")>>
    /\ emitted[1].record.Attributes =
           Bound(2) \o <<String("k", "{}"), String("port", "")>>

\* WithAttr(encode(args)) on the receiver of loggers[g] yields a Logger with
\* the handle and the pre-bound list of loggers[g]
C16_SameAsWithAttr(g) ==
    LET recv == derived[g].recv
        encoded == convertArgsToKeyValues(derived[g].args)
    IN ENABLED (/\ WithAttr(recv, encoded)
                /\ Last(loggers').Logger = loggers[g].Logger
                /\ Elems(arrays', Last(loggers').attrs) = Attrs(g)
                /\ Elems(arrays', Last(loggers').attrs) = Attrs(recv) \o encoded)

\* C16: a Logger made by With(args) has the backend handle and the pre-bound
\* list (the receiver's list followed by encode(args)) that WithAttr with
\* encode(args) gives on the same receiver; and in every chain, mixed of With
\* and WithAttr in any order, the list is in binding order.
C16_WithIsWithAttrEncoded ==
    /\ \A i \in DOMAIN loggers :
           /\ Attrs(i) = Bound(i)
           /\ loggers[i].Logger = loggers[1].Logger
    /\ (pc = "idle" /\ Len(loggers) < MaxLoggers) =>
           \A g \in DOMAIN loggers :
               derived[g].op = "With" => C16_SameAsWithAttr(g)

C16_Witness ==
    /\ pc = "idle"
    /\ Len(loggers) = 2
    /\ derived[2].op = "With"
    /\ derived[2].args = <<AnyInt(42), AnyString("x"), AnyString("k"), AnyString("v"),
                           AnyString("port")>>
    /\ Attrs(2) = <<String("k", "v"), String("port", "")>>
    /\ C16_SameAsWithAttr(2)

\* loggers[g] was made by With() or WithAttr() without arguments
BoundNothing(g) ==
    \/ derived[g].op = "With" /\ derived[g].args = <<>>
    \/ derived[g].op = "WithAttr" /\ derived[g].attrs = <<>>

\* the call that has just run, made on loggers[j] instead
SameCallOn(j) ==
    CASE call.op \in MsgArgOps ->
             log(loggers[j], call.ctx, AskedSeverity, call.text, call.args)
      [] call.op \in MsgAttrOps ->
             logAttr(loggers[j], call.ctx, AskedSeverity, call.text, call.attrs)
      [] call.op \in EventArgOps ->
             logEvent(loggers[j], call.ctx, AskedSeverity, call.text, call.args)
      [] call.op \in EventAttrOps ->
             logEventAttr(loggers[j], call.ctx, AskedSeverity, call.text, call.attrs)

\* C17: a Logger made by With() with no arguments, or by WithAttr() with no
\* attributes, has the pre-bound list contents and the backend handle of its
\* receiver, and every logging call on it emits the record the same call
\* emits on the receiver.
C17_EmptyWithIsIdentity ==
    /\ \A g \in DOMAIN loggers :
           BoundNothing(g) =>
               /\ Attrs(g) = Attrs(derived[g].recv)
               /\ loggers[g].Logger = loggers[derived[g].recv].Logger
    /\ (pc = "returned" /\ call.op \in LoggingOps /\ BoundNothing(call.recv)) =>
           /\ Len(emitted) = 1
           /\ ENABLED (/\ SameCallOn(derived[call.recv].recv)
                       /\ emitted' = <<emitted[1], emitted[1]>>)

C17_Witness ==
    /\ pc = "returned"
    /\ call.op = "InfoEvent"
    /\ call.recv = 3
    /\ derived[3].op = "With" /\ derived[3].args = <<>> /\ derived[3].recv = 2
    /\ derived[2].op = "WithAttr"
    /\ Attrs(3) = <<String("k", "v"), KeyValue("k", Int64Value(1))>>
    /\ call.args = <<AnyString("port"), AnyInt(8080)>>
    /\ emitted[1].record.Attributes =
           <<String("k", "v"), KeyValue("k", Int64Value(1)),
             KeyValue("port", Int64Value(8080))>>

\* the same for WithAttr() without attributes
C17_WitnessAttr ==
    /\ pc = "returned"
    /\ call.op = "Warn"
    /\ call.recv = 3
    /\ derived[3].op = "WithAttr" /\ derived[3].attrs = <<>> /\ derived[3].recv = 2
    /\ derived[2].op = "With"
    /\ Attrs(3) = <<KeyValue("port", Int64Value(8080))>>
    /\ emitted[1].record.Attributes = <<KeyValue("port", Int64Value(8080))>>

\* the New that has just run, and what it called
NewCall == newCalls[1]
CallsOf(fn) == {k \in DOMAIN newCalls : newCalls[k].fn = fn}

\* the handle the one request of the latest New was answered with
Requested == newCalls[CHOOSE k \in CallsOf("Logger") : TRUE].handle

\* C18: New asks a provider for a handle exactly once: options.Provider when
\* it is given, else the global provider; under options.Name when that is not
\* empty, and getCallerPackage is called if and only if it is empty; the
\* Logger returned wraps that handle and has no pre-bound attributes.
C18_NewRequestsOneHandle ==
    newCalls # <<>> =>
        LET o == NewCall.options
        IN /\ Cardinality(CallsOf("Logger")) = 1
           /\ Requested.provider =
                  (IF o.Provider = NilProvider THEN GlobalProvider ELSE o.Provider)
           /\ (CallsOf("GetLoggerProvider") # {}) <=> (o.Provider = NilProvider)
           /\ o.Name # <<>> => Requested.name = o.Name
           /\ (CallsOf("getCallerPackage") # {}) <=> (o.Name = <<>>)
           /\ Last(loggers).Logger = Requested
           /\ Last(loggers).attrs = nil
           /\ Attrs(Len(loggers)) = <<>>

C18_Witness ==
    /\ Len(loggers) = 1
    /\ NewCall.options.Provider = NilProvider
    /\ NewCall.options.Name = <<"a", "p", "p">>
    /\ CallsOf("getCallerPackage") = {}
    /\ loggers[1].Logger.provider = GlobalProvider
    /\ loggers[1].Logger.name = <<"a", "p", "p">>
    /\ Attrs(1) = <<>>

C20_NameIsCallerPackage ==
    (newCalls # <<>> /\ NewCall.options.Name = <<>>) =>
        Last(loggers).Logger.name = NewCall.caller.pkg

\* what holds in the code: the name is the caller's package for a function,
\* a pointer-receiver method and a literal inside such a method
C20_NameIsCallerPackageForSomeCallers ==
    (/\ newCalls # <<>>
     /\ NewCall.options.Name = <<>>
     /\ NewCall.caller.kind \in
            {"function", "pointer method", "literal in pointer method"}) =>
        Last(loggers).Logger.name = NewCall.caller.pkg

\* what the call of goroutine t gives when it runs alone, as one whole call
\* on the shared Logger: the list and handle of the Logger returned, the
\* record emitted, or the answer
AloneGives(t) ==
    LET c == threads[t].call
        got == threads[t].ret
        sent == Append(emitted, [Logger |-> loggers[Shared].Logger, ctx |-> c.ctx,
                                 record |-> threads[t].record])
    IN CASE c.op = "With" ->
                ENABLED (/\ With(Shared, c.args)
                         /\ Last(loggers').Logger = got[1].Logger
                         /\ Elems(arrays', Last(loggers').attrs) =
                                Elems(arrays, got[1].attrs))
         [] c.op = "WithAttr" ->
                ENABLED (/\ WithAttr(Shared, c.attrs)
                         /\ Last(loggers').Logger = got[1].Logger
                         /\ Elems(arrays', Last(loggers').attrs) =
                                Elems(arrays, got[1].attrs))
         [] c.op = "Info" ->
                ENABLED (Info(Shared, c.ctx, c.text, c.args) /\ emitted' = sent)
         [] c.op = "WarnAttr" ->
                ENABLED (WarnAttr(Shared, c.ctx, c.text, c.attrs) /\ emitted' = sent)
         [] c.op = "ErrorEvent" ->
                ENABLED (ErrorEvent(Shared, c.ctx, c.text, c.args) /\ emitted' = sent)
         [] c.op = "DebugEventAttr" ->
                ENABLED (DebugEventAttr(Shared, c.ctx, c.text, c.attrs)
                         /\ emitted' = sent)
         [] c.op = "InfoEventEnabled" ->
                ENABLED (InfoEventEnabled(Shared, c.ctx, c.text) /\ call'.result = got)

Finished == {t \in DOMAIN threads : threads[t].pc = "done"}

\* no step writes a Logger, or the backing array of a Logger's list
C21_Step ==
    \A i \in DOMAIN loggers :
        /\ i \in DOMAIN loggers'
        /\ loggers'[i] = loggers[i]
        /\ loggers[i].attrs.cap > 0 =>
               arrays'[loggers[i].attrs.arr] = arrays[loggers[i].attrs.arr]

\* C21: in every interleaving of With, WithAttr, logging calls and enabled
\* checks that goroutines make on one shared Logger, no step writes the
\* Logger's attribute list or handle, and every finished call has given what
\* it gives when run alone: the derived Logger's handle and list, the record
\* emitted (one per finished logging call), or the answer.
C21_ConcurrentCallsAreIndependent ==
    /\ [](\A t \in Finished : AloneGives(t))
    /\ [](Len(emitted) =
             Cardinality({t \in Finished : threads[t].call.op \in RecordOps}))
    /\ [](\A t \in Finished :
             threads[t].call.op \in RecordOps =>
                 \E k \in DOMAIN emitted : emitted[k].record = threads[t].record)
    /\ [][C21_Step]_vars

C21_Witness ==
    /\ threads # <<>>
    /\ Finished = DOMAIN threads
    /\ threads[1].call.op = "With"
    /\ threads[2].call.op = "WithAttr"
    /\ threads[1].ret[1].attrs.arr = 3
    /\ threads[2].ret[1].attrs.arr = 2
    /\ Elems(arrays, threads[1].ret[1].attrs) =
           SharedAttrs \o <<KeyValue("port", Int64Value(8080))>>
    /\ Elems(arrays, threads[2].ret[1].attrs) = SharedAttrs \o <<String("k", "w")>>
    /\ Attrs(Shared) = SharedAttrs

\* two logging calls finished, the second goroutine's record emitted first
C21_WitnessEmit ==
    /\ threads # <<>>
    /\ Finished = DOMAIN threads
    /\ threads[1].call.op = "Info"
    /\ threads[2].call.op = "DebugEventAttr"
    /\ Len(emitted) = 2
    /\ emitted[1].record = threads[2].record
    /\ emitted[2].record.Attributes =
           SharedAttrs \o <<KeyValue("port", Int64Value(8080))>>

\* every argument-based logging method can be called on loggers[i] with args
CallableWith(i, args) ==
    /\ ENABLED Trace(i, "background", "started", args)
    /\ ENABLED Debug(i, "background", "started", args)
    /\ ENABLED Info(i, "background", "started", args)
    /\ ENABLED Warn(i, "background", "started", args)
    /\ ENABLED Error(i, "background", "started", args)
    /\ ENABLED Log(i, "background", SeverityWarn3, "started", args)
    /\ ENABLED TraceEvent(i, "background", "user.login", args)
    /\ ENABLED DebugEvent(i, "background", "user.login", args)
    /\ ENABLED InfoEvent(i, "background", "user.login", args)
    /\ ENABLED WarnEvent(i, "background", "user.login", args)
    /\ ENABLED ErrorEvent(i, "background", "user.login", args)
    /\ ENABLED Event(i, "background", SeverityWarn3, "user.login", args)

\* the argument list with a non-string key, a value of an unrecognised type
\* and a dangling key
Malformed ==
    <<AnyInt(42), AnyString("x"), AnyString("k"), AnyStruct("{}"), AnyString("port")>>

\* C22: every logging call, whatever its argument list (empty, odd, with a
\* key that is not a string, with a value of an unrecognised type), runs to
\* its end and hands the backend exactly one record; the arguments decide the
\* record's attribute list only (the bad pair dropped, the fallback string,
\* "" for the dangling key), its severity, body and event name are those of
\* the call.
C22_LoggingNeverAborts ==
    /\ pc = "idle" =>
           \A i \in DOMAIN loggers : \A args \in ArgLists : CallableWith(i, args)
    /\ (pc = "returned" /\ call.op \in LoggingOps) =>
           /\ Len(emitted) = 1
           /\ emitted[1].record.Severity = AskedSeverity
           /\ emitted[1].record.Body =
                  (IF call.op \in MsgOps THEN StringValue(call.text) ELSE EmptyValue)
           /\ emitted[1].record.EventName =
                  (IF call.op \in EventOps THEN call.text ELSE "")
           /\ emitted[1].record.Attributes = Bound(call.recv) \o CallAttrs
           /\ call.args = Malformed =>
                  emitted[1].record.Attributes =
                      Bound(call.recv) \o <<String("k", "{}"), String("port", "")>>

C22_Witness ==
    /\ pc = "returned"
    /\ call.op = "Error"
    /\ call.recv = 2
    /\ call.args = Malformed
    /\ Len(emitted) = 1
    /\ emitted[1].record.Body = StringValue("started")
    /\ emitted[1].record.Severity = SeverityError
    /\ emitted[1].record.Attributes =
           Bound(2) \o <<String("k", "{}"), String("port", "")>>

\* the value that was normalized and the value it was normalized to
NormIn == enc.args[2]
NormOut == enc.out[1].Value

\* what C23 asks of every input but the unsigned integers
C23_OtherArms ==
    /\ Len(enc.out) = 1
    /\ enc.out[1].Key = "k"
    /\ NormIn.t = "string" => NormOut = StringValue(NormIn.s)
    /\ NormIn.t \in SignedTypes => NormOut = Int64Value(NormIn.n)
    /\ NormIn.t \in FloatTypes => NormOut = Float64Value(NormIn.n)
    /\ NormIn.t = "bool" => NormOut = BoolValue(NormIn.n)
    /\ NormIn.t = "error" => NormOut = StringValue(NormIn.s)
    /\ NormIn.t \in {"struct", "nil"} => NormOut.Kind = "String"

C23_WitnessAbove ==
    /\ enc.done
    /\ NormIn = AnyNum("uint64", MaxUint64)
    /\ NormOut = Int64Value(-1)

\* the Logger New returned from which loggers[i] was derived
RECURSIVE RootOf(_)
RootOf(i) == IF derived[i].op = "New" THEN i ELSE RootOf(derived[i].recv)

C24_SameHandle ==
    /\ \A i \in DOMAIN loggers :
           /\ loggers[i].Logger = loggers[RootOf(i)].Logger
           /\ loggers[i].Logger.name = loggers[RootOf(i)].Logger.name
           /\ loggers[i].Logger.options = loggers[RootOf(i)].Logger.options
    /\ (pc = "returned" /\ call.op \in LoggingOps) =>
           \A k \in DOMAIN emitted :
               emitted[k].Logger = loggers[RootOf(call.recv)].Logger

C24_Step ==
    /\ \A i \in DOMAIN loggers : loggers'[i].Logger = loggers[i].Logger
    /\ (Len(loggers') > Len(loggers) /\ Last(derived').op # "New") =>
           newCalls' = newCalls

\* C24: every Logger derived by a chain of With/WithAttr calls holds the
\* handle of the Logger New returned at the start of the chain, so its
\* records are emitted under that handle's scope (name, version and
\* instrumentation attributes); no step gives an existing Logger another
\* handle, and With/WithAttr ask no provider for one.
C24_DerivationKeepsHandle == []C24_SameHandle /\ [][C24_Step]_vars

C24_Witness ==
    /\ Len(loggers) = 3
    /\ derived[2].op = "With"
    /\ derived[3].op = "WithAttr"
    /\ derived[3].recv = 2
    /\ loggers[3].Logger = Requested
    /\ Requested.options # <<>>
    /\ pc = "returned"
    /\ call.op = "ErrorEventAttr"
    /\ call.recv = 3
    /\ Len(emitted) = 1
    /\ emitted[1].Logger = loggers[1].Logger

\* the record of the call that has just run
CallRecordIs(r) ==
    /\ r.Logger = loggers[call.recv].Logger
    /\ r.ctx = call.ctx
    /\ r.record.Severity = AskedSeverity
    /\ r.record.Body =
           (IF call.op \in MsgOps THEN StringValue(call.text) ELSE EmptyValue)
    /\ r.record.EventName = (IF call.op \in EventOps THEN call.text ELSE "")
    /\ r.record.Attributes = Bound(call.recv) \o CallAttrs

C25_Step ==
    IF pc = "idle" /\ pc' = "returned" /\ call'.op \in LoggingOps
    THEN /\ Len(emitted') = Len(emitted) + 1
         /\ SubSeq(emitted', 1, Len(emitted)) = emitted
         /\ CallRecordIs(Last(emitted))'
    ELSE emitted' = emitted

\* C25: when a logging call returns, its record is already with the backend,
\* as the last of the records the backend has got; no other step gives the
\* backend a record or takes one back.  So the records of a sequence of
\* calls made one after the other, on one Logger or on several that share a
\* handle, are with the backend in call order, one per call.
C25_EmissionInCallOrder == [][C25_Step]_vars

C25_Witness ==
    /\ pc = "returned"
    /\ Len(emitted) = 3
    /\ Len(loggers) = 3
    /\ derived[3].recv = 2
    /\ call.op = "Info"
    /\ call.recv = 1
    /\ emitted[1].record.Severity = SeverityError
    /\ emitted[1].record.Attributes = <<>>
    /\ emitted[2].record.Severity = SeverityWarn
    /\ emitted[2].record.Attributes = Bound(3)
    /\ Len(Bound(3)) = 4
    /\ emitted[3].record.Severity = SeverityInfo
    /\ emitted[3].record.Attributes = <<KeyValue("port", Int64Value(8080))>>
    /\ \A k \in 1..3 : emitted[k].Logger = Handle

\* the namespace of frame k (from 0) of the stack being walked: none for a
\* frame without function information
WalkNamespace(k) ==
    IF walk.stack[k + 1].fn
    THEN extractPackageFromFuncName(walk.stack[k + 1].name) ELSE <<>>

\* the frames, from the caller of New outward, that have a namespace
WalkHits == {k \in 2..(Len(walk.stack) - 1) : WalkNamespace(k) # <<>>}
FirstHit == CHOOSE k \in WalkHits : \A j \in WalkHits : k <= j

WalkEnded == walk.at \in {"returned", "exhausted"}

C26_FirstNamespace ==
    /\ WalkHits # {} =>
           /\ walk.at = "returned"
           /\ walk.i = FirstHit
           /\ walk.result = WalkNamespace(FirstHit)
    /\ WalkHits = {} =>
           /\ walk.at = "exhausted"
           /\ walk.i = Len(walk.stack)
           /\ walk.result = Unknown
    /\ walk.result = getCallerPackage(walk.stack)

\* C26: the resolver looks at the frames from the caller of New outward (not
\* at its own frame and New's), and returns the namespace of the first frame
\* that has a function and a non-empty namespace; it reaches its final
\* `return "unknown"` if and only if no frame is such a frame.  (A result
\* equal to "unknown" can also be the namespace of a frame.)
C26_ResolverReturnsFirstNamespace == WalkEnded => C26_FirstNamespace

\* C26 as stated: the value "unknown" is returned only if the stack was
\* exhausted
C26_UnknownOnlyWhenExhausted ==
    WalkEnded =>
        /\ C26_FirstNamespace
        /\ walk.result = Unknown <=> WalkHits = {}

C26_Witness ==
    /\ walk.at = "returned"
    /\ Len(walk.stack) = 5
    /\ walk.stack[3] = NoFunc
    /\ walk.stack[4] = Func(<<"m">>)
    /\ walk.stack[5] = Func(PointerMethod(CallerPkg))
    /\ walk.i = 4
    /\ walk.result = CallerPkg

C26_WitnessExhausted ==
    /\ walk.at = "exhausted"
    /\ Len(walk.stack) = 5
    /\ walk.result = Unknown

C26_WitnessUnknownPackage ==
    /\ walk.at = "returned"
    /\ walk.result = Unknown

\* the name that was given to extractPackageFromFuncName
ExtractedName == walk.stack[1].name

\* the characters of the name before its first "(", or all of them
SearchWindow ==
    LET parens == {p \in 1..Len(ExtractedName) : ExtractedName[p] = "("}
    IN IF parens = {} THEN Len(ExtractedName)
       ELSE (CHOOSE p \in parens : \A q \in parens : p <= q) - 1

DotsInWindow == {d \in 1..SearchWindow : ExtractedName[d] = "."}

MethodOfXY ==
    <<"g", "i", "t", "h", "u", "b", ".", "c", "o", "m", "/", "x", "/", "y", ".", "(",
      "*", "T", "y", "p", "e", ")", ".", "M", "e", "t", "h", "o", "d">>

PackageXY ==
    <<"g", "i", "t", "h", "u", "b", ".", "c", "o", "m", "/", "x", "/", "y">>

PathFunction ==
    <<"p", "a", "c", "k", "a", "g", "e", "/", "p", "a", "t", "h", ".", "F", "u", "n",
      "c", "t", "i", "o", "n">>

PackagePath ==
    <<"p", "a", "c", "k", "a", "g", "e", "/", "p", "a", "t", "h">>

NoSeparator ==
    <<"n", "o", "S", "e", "p", "a", "r", "a", "t", "o", "r">>

\* C27: the result is the part of the name before the last "." that stands
\* before the first "(" of the name (before the last "." of the whole name
\* when it has no "("), and "" when there is no such "."; so for the method
\* Method of a pointer to Type in github.com/x/y (MethodOfXY) it is
\* "github.com/x/y", for "package/path.Function" it is "package/path", and
\* for "noSeparator" and for the empty name it is "".
C27_NamespaceBeforeLastDot ==
    walk.at = "extracted" =>
        /\ walk.result =
               (IF DotsInWindow = {} THEN <<>>
                ELSE SubSeq(ExtractedName, 1,
                         (CHOOSE d \in DotsInWindow : \A e \in DotsInWindow : e <= d) - 1))
        /\ ExtractedName = MethodOfXY => walk.result = PackageXY
        /\ ExtractedName = PathFunction => walk.result = PackagePath
        /\ ExtractedName = NoSeparator => walk.result = <<>>
        /\ ExtractedName = <<>> => walk.result = <<>>

C27_Witness ==
    /\ walk.at = "extracted"
    /\ ExtractedName = MethodOfXY
    /\ walk.result = PackageXY

C27_WitnessShort ==
    /\ walk.at = "extracted"
    /\ ExtractedName = <<"a", ".", "(", ".">>
    /\ walk.result = <<"a">>

\* a frame is read only while runtime.Caller answers ok for it
C28_FrameInStack ==
    /\ walk.i <= Len(walk.stack)
    /\ walk.at \in {"FuncForPC", "extract"} => walk.i < Len(walk.stack)

C28_Step ==
    /\ walk'.stack = walk.stack
    /\ walk'.at = "Caller" => walk'.i = walk.i + 1
    /\ walk'.at # "Caller" => walk'.i = walk.i

\* C28: on every call stack, also one with frames without function
\* information and one in which no frame's name has a dot, the resolver
\* reads frames of the stack only, every new iteration of its loop is at the
\* next frame index, and the walk ends with a result.
C28_ResolverTerminates ==
    /\ []C28_FrameInStack
    /\ [][C28_Step]_vars
    /\ <>(WalkEnded /\ walk.result # <<>>)

C28_Witness ==
    /\ walk.at = "exhausted"
    /\ Len(walk.stack) = 5
    /\ walk.stack[3] = NoFunc
    /\ walk.stack[4] = Func(<<"m">>)
    /\ walk.stack[5] = Func(<<>>)
    /\ walk.i = 5
    /\ walk.result = Unknown

\* the backend's answer, had the call that has just run asked it first
BackendEnabled ==
    EnabledFunc(loggers[call.recv].Logger, call.ctx,
                EnabledParameters(AskedSeverity,
                                  IF call.op \in EventOps THEN call.text ELSE ""))

\* C29: a logging call puts no Enabled query to the backend and hands it one
\* record of the call's severity, whatever the backend would answer to
\* Enabled at that severity (and event name), also when the answer is false.
C29_LoggingIgnoresEnabled ==
    (pc = "returned" /\ call.op \in LoggingOps) =>
        /\ queried = <<>>
        /\ Len(emitted) = 1
        /\ emitted[1].Logger = loggers[call.recv].Logger
        /\ emitted[1].record.Severity = AskedSeverity
        /\ ~BackendEnabled => CallRecordIs(emitted[1])

C29_Witness ==
    /\ pc = "returned"
    /\ call.op = "Debug"
    /\ loggers[call.recv].Logger = "recorderFromInfo"
    /\ ~BackendEnabled
    /\ queried = <<>>
    /\ Len(emitted) = 1
    /\ emitted[1].record.Severity = SeverityDebug

C29_WitnessEvent ==
    /\ pc = "returned"
    /\ call.op = "InfoEventAttr"
    /\ loggers[call.recv].Logger = "recorderAboveInfo"
    /\ ~BackendEnabled
    /\ Len(emitted) = 1
    /\ emitted[1].record.EventName = call.text

\* the positions in args (from 1: the 1st, 3rd, 5th .. element, which Go
\* indexes 0, 2, 4 ..) that hold a string, in order
KeyPositions(args) ==
    SelectSeq([k \in 1..PairCount(args) |-> 2 * k - 1], LAMBDA p : IsString(args[p]))

\* C30: the attributes of an encoding are, in order, those of the strings at
\* the even (Go) indices of the list: each has that string as its key and the
\* normalized element right after it as its value ("" when there is none).
\* An element at an odd index is never a key, also when the element before
\* it was dropped for not being a string: (42, "a", "b") encodes to
\* (("b", "")), not to (("a", "b")).
C30_PairingIsPositional ==
    enc.done =>
        /\ Len(enc.out) = Len(KeyPositions(enc.args))
        /\ \A k \in DOMAIN enc.out :
               LET p == KeyPositions(enc.args)[k]
               IN /\ enc.out[k].Key = enc.args[p].s
                  /\ enc.out[k].Value =
                         (IF p + 1 <= Len(enc.args)
                          THEN convertValue(enc.args[p + 1]) ELSE StringValue(""))
        /\ enc.args = <<AnyInt(42), AnyString("a"), AnyString("b")>> =>
               enc.out = <<String("b", "")>>

C30_Witness ==
    /\ enc.done
    /\ enc.args = <<AnyInt(42), AnyString("a"), AnyString("b")>>
    /\ enc.out = <<String("b", "")>>
    /\ enc.out # <<String("a", "b")>>

====
